---- MODULE Spec2Model ----
(***************************************************************************)
(* go-fileencrypt: the chunked AES-256-GCM stream format, the streaming    *)
(* encryptor (internal/core/encryptor.go) and the streaming decryptor      *)
(* (internal/core/decryptor.go), modelled as state machines.               *)
(*                                                                         *)
(* A byte is a number in 0..ByteMod-1 and every fixed-width integer of the *)
(* program keeps its number of bytes: a uint32 is 4 bytes (it wraps at     *)
(* ByteMod^4), a uint64 is 8 bytes, an int64 is the signed reading of the  *)
(* same 8 bytes.  One EncryptStream / DecryptStream call is a "begin" step *)
(* (everything up to the chunk loop) followed by one step per iteration of *)
(* the chunk loop.                                                         *)
(***************************************************************************)
EXTENDS Integers, Sequences, FiniteSets, TLC

\* ------------------------------------------------------------------ bounds
\* Number of values of a byte (256 in the program).
ByteMod == 4
\* Longest plaintext offered by the source.
MaxLen == 2
\* format.go MaxChunkSize (10 MiB in the program), scaled down.
MaxChunkSize == 2
\* How many times one source may return (0, nil) from Read.
MaxZeroReads == 1
\* How many times Destroy is called on one instance.
MaxDestroys == 3
\* How many goroutines call Destroy or Data on one SecureBuffer at once.
NumCallers == 3
\* How many goroutines run EncryptStream at once.
NumWorkers == 2

\* --------------------------------------------------------- format constants
NonceSize == 12
TagSize == 16
KeySize == 32
Version == 1
MagicBytes == <<71 % ByteMod, 70 % ByteMod, 69 % ByteMod>>
HeaderSize == Len(MagicBytes) + 1 + NonceSize + 8

U32Mod == ByteMod ^ 4
U64Mod == ByteMod ^ 8

Min(a, b) == IF a < b THEN a ELSE b

\* ------------------------------------------------ encoding/binary.BigEndian
\* PutUint32 / PutUint64: the w big-endian bytes of v.
PutUint(v, w) == [i \in 1..w |-> (v \div (ByteMod ^ (w - i))) % ByteMod]
PutUint32(v) == PutUint(v % U32Mod, 4)
PutUint64(v) == PutUint(v % U64Mod, 8)

\* Uint32 / Uint64: the number a big-endian byte string stands for.
RECURSIVE Uint(_)
Uint(bs) ==
    IF bs = <<>> THEN 0
    ELSE Uint(SubSeq(bs, 1, Len(bs) - 1)) * ByteMod + bs[Len(bs)]

\* The conversions uint64(int64) and int64(uint64): same bytes, other reading.
ToUint64(i) == i % U64Mod
ToInt64(u) == IF u >= (U64Mod + 1) \div 2 THEN u - U64Mod ELSE u

\* ------------------------------------------------------------------- inputs
KeyA == [i \in 1..KeySize |-> 1]
KeyB == [i \in 1..KeySize |-> 2]
\* What a destroyed key buffer holds.
KeyZero == [i \in 1..KeySize |-> 0]
KeyList == <<KeyA, KeyB, KeyZero>>
Keys == {KeyA, KeyB}

\* Outputs of crypto/rand for the base nonce: NonceB differs from NonceA in
\* its last byte only, NonceC in its first byte.
NonceA == [i \in 1..NonceSize |-> 0]
NonceB == [i \in 1..NonceSize |-> IF i = NonceSize THEN 1 ELSE 0]
NonceC == [i \in 1..NonceSize |-> IF i = 1 THEN 1 ELSE 0]
BaseNonces == {NonceA, NonceB, NonceC}

RECURSIVE SeqsUpTo(_, _)
SeqsUpTo(S, n) ==
    IF n = 0 THEN {<<>>}
    ELSE LET shorter == SeqsUpTo(S, n - 1)
         IN shorter \cup {Append(s, x) : s \in {t \in shorter : Len(t) = n - 1}, x \in S}

Plaintexts == SeqsUpTo({0, 1}, MaxLen)
ChunkSizes == 1..MaxChunkSize

\* A variadic sizeHint ...int64 is the empty sequence or a one-element one.
EncHints(p) == {<<>>, <<Len(p)>>, <<1>>, <<-1>>}
DecHints == {<<>>, <<1>>, <<-1>>}

\* ------------------------------------------------- crypto/cipher AES-256-GCM
\* The AEAD is the ideal one: the tag is an injective function of (key, nonce,
\* AAD, ciphertext body), so Open accepts exactly what Seal produced under the
\* same key, nonce and AAD.  The 16 tag positions carry that encoding; the
\* key's position holds a value no byte can take, so that no change of a byte
\* of a tag yields the tag of another key (tags cannot be forged).
KeyIndex(key) == CHOOSE i \in 1..Len(KeyList) : KeyList[i] = key

\* CTR keystream byte i of the block cipher under (key, nonce).
KeyStream(key, nonce, i) ==
    (KeyIndex(key) + Uint(SubSeq(nonce, 1, 4)) + Uint(SubSeq(nonce, 5, 8))
       + Uint(SubSeq(nonce, 9, 12)) + i) % ByteMod

GcmTag(key, nonce, aad, body) ==
    << KeyIndex(key) + ByteMod,
       Uint(SubSeq(nonce, 1, 4)), Uint(SubSeq(nonce, 5, 8)), Uint(SubSeq(nonce, 9, 12)),
       Uint(SubSeq(aad, 1, 4)), Uint(SubSeq(aad, 5, 8)),
       Len(body), Uint(body) >> \o [i \in 1..(TagSize - 8) |-> 0]

\* gcm.Seal(nil, nonce, plaintext, aad): ciphertext body followed by the tag.
Seal(key, nonce, plaintext, aad) ==
    LET body == [i \in 1..Len(plaintext) |->
                    (plaintext[i] + KeyStream(key, nonce, i)) % ByteMod]
    IN body \o GcmTag(key, nonce, aad, body)

\* gcm.Open(nil, nonce, ciphertext, aad): the plaintext, or an error when the
\* input is shorter than a tag or the tag does not verify.
OpenSkipTagCheck(key, nonce, ciphertext, aad) ==
    IF Len(ciphertext) < TagSize THEN [ok |-> FALSE, plaintext |-> <<>>]
    ELSE LET body == SubSeq(ciphertext, 1, Len(ciphertext) - TagSize)
         IN [ok |-> TRUE,
             plaintext |-> [i \in 1..Len(body) |->
                 (body[i] + ByteMod - KeyStream(key, nonce, i)) % ByteMod]]

Open(key, nonce, ciphertext, aad) ==
    IF Len(ciphertext) < TagSize THEN [ok |-> FALSE, plaintext |-> <<>>]
    ELSE LET body == SubSeq(ciphertext, 1, Len(ciphertext) - TagSize)
             tag == SubSeq(ciphertext, Len(ciphertext) - TagSize + 1, Len(ciphertext))
         IN IF tag # GcmTag(key, nonce, aad, body)
            THEN [ok |-> FALSE, plaintext |-> <<>>]
            ELSE [ok |-> TRUE,
                  plaintext |-> [i \in 1..Len(body) |->
                      (body[i] + ByteMod - KeyStream(key, nonce, i)) % ByteMod]]

\* ------------------------------------------------------ pieces of the format
\* encryptor.go 179-191: the 8 size bytes of the header, which are the AAD.
EncSizeBytes(sizeHint) ==
    LET totalSize == IF Len(sizeHint) > 0 THEN sizeHint[1] ELSE 0
    IN PutUint64(ToUint64(totalSize))

\* encryptor.go 166-188: magic, version, base nonce, size.
EncHeader(baseNonce, sizeBytes) ==
    MagicBytes \o <<Version>> \o baseNonce \o sizeBytes

\* encryptor.go 215-217: the base nonce with its last 4 bytes overwritten by
\* the chunk counter.
EncChunkNonceNoCounter(baseNonce, chunkCounter) == baseNonce

EncChunkNonce(baseNonce, chunkCounter) ==
    SubSeq(baseNonce, 1, 8) \o PutUint32(chunkCounter)

\* encryptor.go 229-237: the 4-byte length followed by the sealed chunk.
EncChunkFramePlainLength(ciphertext) ==
    PutUint32(Len(ciphertext) - TagSize) \o ciphertext

EncChunkFrame(ciphertext) ==
    PutUint32(Len(ciphertext)) \o ciphertext

\* decryptor.go 194-196.
DecChunkNonceNoCounter(baseNonce, chunkCounter) == baseNonce

DecChunkNonce(baseNonce, chunkCounter) ==
    SubSeq(baseNonce, 1, 8) \o PutUint32(chunkCounter)

\* decryptor.go 157-163: the expected total, from the header or the hint.
DecTotalSize(sizeBytes, sizeHint) ==
    LET fileSizeUint64 == Uint(sizeBytes)
    IN IF fileSizeUint64 > 0 THEN ToInt64(fileSizeUint64)
       ELSE IF Len(sizeHint) > 0 THEN sizeHint[1]
       ELSE 0

\* decryptor.go 133 and 141: the tests of the magic and of the version byte.
DecMagicOK(magic) == magic = MagicBytes
DecVersionAny(version) == TRUE
DecVersionOK(version) == version[1] = Version

\* decryptor.go 185: the guard on a chunk length read from the stream.
DecChunkSizeAny(chunkSize) == TRUE
DecChunkSizeOK(chunkSize) ==
    ~(chunkSize = 0 \/ chunkSize > (MaxChunkSize + TagSize) % U32Mod)

\* decryptor.go 216: the check after the clean end of the stream.
DecTruncated(totalSize, written) == totalSize > 0 /\ written # totalSize

\* io.ReadFull on the rest of a byte stream: "EOF" when nothing is left,
\* "ErrUnexpectedEOF" when fewer than n bytes are left.
ReadFullErrLenient(src, pos, n) ==
    IF n = 0 THEN "nil"
    ELSE IF Len(src) - pos < n THEN "EOF"
    ELSE "nil"

ReadFullErr(src, pos, n) ==
    IF n = 0 THEN "nil"
    ELSE IF Len(src) - pos = 0 THEN "EOF"
    ELSE IF Len(src) - pos < n THEN "ErrUnexpectedEOF"
    ELSE "nil"

\* ------------------------------------------------- internal/crypto SecureBuffer
\* The memory block a slice made from the argument b lives in: the block of
\* the argument itself ("arg", what buf := b gives) or a block of its own
\* with the same bytes ("own", what make and copy give).
SameBlock(b) == [block |-> "arg", bytes |-> b]
NewBlock(b) == [block |-> "own", bytes |-> b]

\* secure_buffer.go 25-41: a private copy of b; locked says whether LockMemory
\* pinned it, unlocks counts the calls of the unlock closure.
NewSecureBufferFromBytes(b, lockOK) ==
    [buf |-> NewBlock(b).bytes, block |-> NewBlock(b).block,
     zeroed |-> FALSE, locked |-> lockOK, unlocks |-> 0]

\* secure_buffer.go 44-48.
Data(s) == s.buf

\* secure.Zero: every byte becomes 0, the length stays.
ZeroAndDrop(b) == <<>>
Zero(b) == [i \in 1..Len(b) |-> 0]

\* secure_buffer.go 51-65.
DestroyAlways(s) ==
    [s EXCEPT !.buf = Zero(s.buf), !.zeroed = TRUE, !.locked = FALSE,
              !.unlocks = @ + 1]

Destroy(s) ==
    IF ~s.zeroed
    THEN [s EXCEPT !.buf = Zero(s.buf), !.zeroed = TRUE, !.locked = FALSE,
                   !.unlocks = @ + 1]
    ELSE s

\* The key buffer of the Decryptor is a secure.SecureBuffer: a copy of the
\* key bytes, destroy() zeroes it and releases the pin on the first call and
\* is a no-op afterwards; data() exposes the current bytes.
SecureNewSecureBufferFromBytes(b, lockOK) ==
    [buf |-> NewBlock(b).bytes, block |-> NewBlock(b).block,
     zeroed |-> FALSE, locked |-> lockOK, unlocks |-> 0]

SecureData(s) == s.buf

SecureDestroy(s) ==
    IF ~s.zeroed
    THEN [s EXCEPT !.buf = Zero(s.buf), !.zeroed = TRUE, !.locked = FALSE,
                   !.unlocks = @ + 1]
    ELSE s

\* ------------------------------------------------------------------ options
\* options.go 20-48
AlgorithmAESGCM == 1
AlgorithmChaCha20Poly1305 == 2
AlgorithmMLKEMHybrid == 3
Algorithms == {AlgorithmAESGCM, AlgorithmChaCha20Poly1305, AlgorithmMLKEMHybrid}
IsSupportedAny(a) == a \in Algorithms
IsSupported(a) == a = AlgorithmAESGCM

\* options.go 61-66; the default (1 MiB in the program) is scaled down.
MinChunkSize == 1
DefaultChunkSize == 1

\* math.MaxInt of a 64-bit int.
MaxInt == U64Mod \div 2 - 1

\* The environment variable FILEENCRYPT_CHUNKSIZE_LIMIT: not set, set to
\* something humanize.ParseBytes rejects, or set to a size (a uint64).
EnvUnset == [exists |-> FALSE, parsed |-> FALSE, limit |-> 0]
EnvUnparseable == [exists |-> TRUE, parsed |-> FALSE, limit |-> 0]
EnvLimit(L) == [exists |-> TRUE, parsed |-> TRUE, limit |-> L]

\* options.go 70-91: the limit WithChunkSize validates against.
EnvOverrides(e) == e.exists /\ e.parsed /\ e.limit > 0
LimitOf(e) == IF EnvOverrides(e) THEN e.limit ELSE MaxChunkSize

\* options.go 70-91: WithChunkSize(size) returns an option, here <<size>>,
\* or an error.
WithChunkSizeNoMin(size, e) ==
    IF EnvOverrides(e) /\ e.limit > MaxInt
    THEN [err |-> "FILEENCRYPT_CHUNKSIZE_LIMIT too large", opt |-> <<>>]
    ELSE IF size > LimitOf(e)
    THEN [err |-> "invalid chunk size", opt |-> <<>>]
    ELSE [err |-> "nil", opt |-> <<size>>]

WithChunkSize(size, e) ==
    IF EnvOverrides(e) /\ e.limit > MaxInt
    THEN [err |-> "FILEENCRYPT_CHUNKSIZE_LIMIT too large", opt |-> <<>>]
    ELSE IF size < MinChunkSize \/ size > LimitOf(e)
    THEN [err |-> "invalid chunk size", opt |-> <<>>]
    ELSE [err |-> "nil", opt |-> <<size>>]

\* The options of a constructor call: each of chunkSize and algorithm is
\* <<>> (option not passed) or a one-element sequence; progress says whether
\* WithProgress(cb) was passed.
NoOpts == [chunkSize |-> <<>>, algorithm |-> <<>>, progress |-> FALSE]

\* encryptor.go 42-48 / decryptor.go 39-45: the defaults, then the options.
ConfigOf(opts) ==
    [ChunkSize |-> IF opts.chunkSize = <<>> THEN DefaultChunkSize ELSE opts.chunkSize[1],
     Algorithm |-> IF opts.algorithm = <<>> THEN AlgorithmAESGCM ELSE opts.algorithm[1],
     Progress |-> opts.progress]

\* encryptor.go 39 / decryptor.go 36: the key length test of the constructors.
KeyLengthAtMost(key) == Len(key) <= KeySize
KeyLengthOK(key) == Len(key) = KeySize

\* encryptor.go 50 / decryptor.go 47.
ChunkSizeOK(size) == ~(size < MinChunkSize \/ size > MaxChunkSize)

\* A nil *Encryptor / *Decryptor.
Nil == [nil |-> TRUE]

\* encryptor.go 38-70: the instance, or nil and an error.
NewEncryptor(key, opts, lockOK) ==
    LET cfg == ConfigOf(opts)
    IN IF ~KeyLengthOK(key) THEN [inst |-> Nil, err |-> "invalid key length"]
       ELSE IF ~ChunkSizeOK(cfg.ChunkSize) THEN [inst |-> Nil, err |-> "invalid chunk size"]
       ELSE [inst |-> [keyBuf |-> NewSecureBufferFromBytes(key, lockOK),
                       chunkSize |-> cfg.ChunkSize,
                       progress |-> cfg.Progress,
                       algorithm |-> cfg.Algorithm,
                       startChunkCounter |-> 0],
             err |-> "nil"]

\* decryptor.go 35-67.
NewDecryptor(key, opts, lockOK) ==
    LET cfg == ConfigOf(opts)
    IN IF ~KeyLengthOK(key) THEN [inst |-> Nil, err |-> "invalid key length"]
       ELSE IF ~ChunkSizeOK(cfg.ChunkSize) THEN [inst |-> Nil, err |-> "invalid chunk size"]
       ELSE [inst |-> [keyBuf |-> SecureNewSecureBufferFromBytes(key, lockOK),
                       chunkSize |-> cfg.ChunkSize,
                       progress |-> cfg.Progress,
                       algorithm |-> cfg.Algorithm],
             err |-> "nil"]

\* ------------------------------------------------------------ key derivation
\* key.go 24, 45, 73, 81.
MinPBKDF2Iterations == 210000
MinArgon2Memory == 19 * 1024
MinSaltLen == 16
MaxDerivedKeyLen == 128

\* pbkdf2.Key and argon2.IDKey: keyLen bytes that depend on every argument.
Pbkdf2Key(password, salt, iterations, keyLen) ==
    [i \in 1..keyLen |-> (Uint(password) + Len(salt) + iterations + i) % ByteMod]
Argon2IDKey(password, salt, time, memory, threads, keyLen) ==
    [i \in 1..keyLen |-> (Uint(password) + Len(salt) + time + memory + threads + i) % ByteMod]

\* key.go 73 / 141: the test of the salt.
SaltNonEmpty(salt) == Len(salt) > 0
SaltOK(salt) == ~(Len(salt) < MinSaltLen)

\* The result of a derivation call: the key (noKey when nil is returned), the
\* error, and whether the derivation function was run.
KdfError(msg) == [key |-> <<>>, noKey |-> TRUE, err |-> msg, ran |-> FALSE]
KdfKey(key) == [key |-> key, noKey |-> FALSE, err |-> "nil", ran |-> TRUE]

\* key.go 68-88: iterations and keyLen are ints.
DeriveKeyPBKDF2(password, salt, iterations, keyLen) ==
    IF Len(password) = 0 THEN KdfError("password cannot be empty")
    ELSE IF ~SaltOK(salt) THEN KdfError("salt must be at least 16 bytes")
    ELSE IF iterations < MinPBKDF2Iterations THEN KdfError("iterations must be at least")
    ELSE IF keyLen <= 0 \/ keyLen > MaxDerivedKeyLen
    THEN KdfError("keyLen must be between 1 and 128 bytes")
    ELSE KdfKey(Pbkdf2Key(password, salt, iterations, keyLen))

\* key.go 136-165: time, memory and keyLen are uint32, threads is a uint8.
DeriveKeyArgon2(password, salt, time, memory, threads, keyLen) ==
    IF Len(password) = 0 THEN KdfError("password cannot be empty")
    ELSE IF ~SaltOK(salt) THEN KdfError("salt must be at least 16 bytes")
    ELSE IF time < 1 THEN KdfError("time cost must be at least 1")
    ELSE IF memory < MinArgon2Memory THEN KdfError("memory cost must be at least")
    ELSE IF threads < 1 THEN KdfError("threads must be at least 1")
    ELSE IF keyLen = 0 \/ keyLen > MaxDerivedKeyLen
    THEN KdfError("keyLen must be between 1 and 128 bytes")
    ELSE KdfKey(Argon2IDKey(password, salt, time, memory, threads, keyLen))

\* -------------------------------------------------------------------- state
VARIABLES
    enc,              \* the *Encryptor: Nil, or keyBuf, chunkSize, progress, algorithm, startChunkCounter
    dec,              \* the *Decryptor: Nil, or keyBuf, chunkSize (unused by DecryptStream), progress, algorithm
    encNew,           \* history: the NewEncryptor call (key, options) and its error
    decNew,           \* history: the NewDecryptor call and its error
    env,              \* the environment variable FILEENCRYPT_CHUNKSIZE_LIMIT
    ctx,              \* ctx.Err(): "nil", "context.Canceled" or "context.DeadlineExceeded"
    destroys,         \* history: the number of Destroy calls on enc and on dec
    faults,           \* which readers and writers may fail: "encSrc", "encDst", "decDst"
    encVia,           \* the encryption entry point: "EncryptStream" or "EncryptFile"
    decVia,           \* the decryption entry point: "DecryptStream" or "DecryptFile"
    plaintext,        \* the bytes the source reader of EncryptStream delivers
    sizeHint,         \* EncryptStream's sizeHint argument
    decSizeHint,      \* DecryptStream's sizeHint argument
    rand,             \* what crypto/rand will return, one base nonce per call
    encPc,            \* "idle", "loop" (in the chunk loop) or "done"
    encErr,           \* EncryptStream's result once encPc = "done"
    gcm,              \* EncryptStream's locals: the key the cipher was built with
    baseNonce,
    aad,
    srcPos,           \* bytes of plaintext read so far
    dst,              \* the bytes written to EncryptStream's sink
    dstFile,          \* EncryptFile's destination file: "absent" or "created"
    chunkCounter,
    written,
    progressNext,
    progressCalls,    \* history: the values e.progress was called with in this call
    reads,            \* history: the sizes of the non-empty reads of this call
    zeroReads,        \* history: how many reads returned (0, nil)
    run,              \* history: number of EncryptStream calls begun
    sealed,           \* history: one record per gcm.Seal call, all calls
    attack,           \* what was done to the ciphertext on its way
    decSrc,           \* the bytes the source reader of DecryptStream delivers
    decPc,            \* "idle", "loop" or "done"
    decErr,           \* DecryptStream's result once decPc = "done"
    decPos,           \* bytes of decSrc read so far
    decGcm,           \* DecryptStream's locals: the key the cipher was built with
    decBaseNonce,
    decAad,
    totalSize,
    decChunkCounter,
    decWritten,
    decProgressCalls, \* history: the values d.progress was called with in this call
    decDst,           \* the bytes written to DecryptStream's sink
    decDstFile,       \* DecryptFile's destination file: "absent" or "created"
    kdf,              \* a key-derivation call: its arguments and, once made, its results
    sb,               \* a SecureBuffer shared by goroutines: buf, zeroed, locked, unlocks
    mu,               \* its mutex s.mu: 0 when free, else the goroutine holding it
    sbCalls,          \* per goroutine: the method it calls (op), its position (pc), what Data returned (seen)
    zeroCalls,        \* history: how many times secure.Zero(s.buf) ran
    workers,          \* per goroutine in EncryptStream: its instance, source, locals, sink and result
    pool,             \* per Encryptor: the buffers in its bufferPool
    bufMem,           \* the chunk buffers made so far, by number: their bytes
    fileRet,          \* per file entry point (enc, dec): whether it returned, its result, and how many output bytes reached the file
    cancelAt,         \* history: where each side was when the context was cancelled (chunks handled, position)
    callerKey         \* the bytes of the key slices the caller passed to NewEncryptor (enc) and NewDecryptor (dec)

cfgVars == <<enc, dec, encNew, decNew, env, ctx, destroys, faults, encVia, decVia,
             plaintext, sizeHint, decSizeHint>>
encVars == <<rand, encPc, encErr, gcm, baseNonce, aad, srcPos, dst, dstFile, chunkCounter,
             written, progressNext, progressCalls, reads, zeroReads, run, sealed>>
wireVars == <<attack, decSrc>>
decVars == <<decPc, decErr, decPos, decGcm, decBaseNonce, decAad, totalSize,
             decChunkCounter, decWritten, decProgressCalls, decDst, decDstFile>>
streamVars == <<cfgVars, encVars, wireVars, decVars>>
kdfVars == <<kdf>>
sbVars == <<sb, mu, sbCalls, zeroCalls>>
\* The state of neither the instances nor their callers' key slices.
concVars == <<workers, pool, bufMem>>
ctlVars == <<cancelAt, fileRet>>
sideVars == <<kdfVars, sbVars, concVars, ctlVars>>
auxVars == <<sideVars, callerKey>>
vars == <<cfgVars, encVars, wireVars, decVars, auxVars>>

NoAttack == [kind |-> "none", at |-> 0, arg |-> 0]
NotSent == [kind |-> "unsent", at |-> 0, arg |-> 0]

\* errors.go 42, and the two values ctx.Err() takes once the context is done.
ErrContextCanceled == "crypto.ErrContextCanceled"
CtxErrs == {"context.Canceled", "context.DeadlineExceeded"}

\* encryptor.go 208 / decryptor.go 169: the poll ctx.Err() != nil.
CtxErrIsCanceled(err) == err = "context.Canceled"
CtxErrNotNil(err) == err # "nil"

\* A constructor call that has not been made, and one that has.
\* size is the argument of the WithChunkSize call made for it (<<>> if none),
\* optErr the error of that call, err the error of the constructor.
NotCalled ==
    [called |-> FALSE, key |-> <<>>, size |-> <<>>, opts |-> NoOpts,
     optErr |-> "none", err |-> "none"]
Called(key, opts, err) ==
    [called |-> TRUE, key |-> key, size |-> opts.chunkSize, opts |-> opts,
     optErr |-> "nil", err |-> err]

\* No EncryptStream or DecryptStream call has begun.
InitCalls ==
    /\ destroys = [enc |-> 0, dec |-> 0]
    /\ encPc = "idle" /\ encErr = "none"
    /\ gcm = <<>> /\ baseNonce = <<>> /\ aad = <<>>
    /\ srcPos = 0 /\ dst = <<>> /\ dstFile = "absent"
    /\ chunkCounter = 0 /\ written = 0
    /\ progressNext = 0 /\ progressCalls = <<>>
    /\ reads = <<>> /\ zeroReads = 0 /\ run = 0 /\ sealed = <<>>
    /\ attack = NotSent /\ decSrc = <<>>
    /\ decPc = "idle" /\ decErr = "none" /\ decPos = 0
    /\ decGcm = <<>> /\ decBaseNonce = <<>> /\ decAad = <<>> /\ totalSize = 0
    /\ decChunkCounter = 0 /\ decWritten = 0 /\ decProgressCalls = <<>>
    /\ decDst = <<>> /\ decDstFile = "absent"

\* No key-derivation call is made.
NoResult == [key |-> <<>>, noKey |-> TRUE, err |-> "none", ran |-> FALSE]
NoKdf == [fn |-> "none", called |-> FALSE, args |-> <<>>, res |-> NoResult]
InitKdfVars == kdf = NoKdf

\* No SecureBuffer is shared by goroutines.
InitSbVars == sb = Nil /\ mu = 0 /\ sbCalls = <<>> /\ zeroCalls = 0

\* What the specifications of EncryptStream and DecryptStream leave aside.
\* No goroutine runs EncryptStream beside the one call followed step by step.
InitConcVars == workers = <<>> /\ pool = <<>> /\ bufMem = <<>>

NotCancelled == [enc |-> 0, dec |-> 0, encPc |-> "none", decPc |-> "none"]
NotReturned == [returned |-> FALSE, err |-> "none", flushErr |-> "none", onDisk |-> 0]
InitCtlVars == cancelAt = NotCancelled /\ fileRet = [enc |-> NotReturned, dec |-> NotReturned]

InitSide == InitKdfVars /\ InitSbVars /\ InitConcVars /\ InitCtlVars
\* The caller's key slices hold what the constructors were given.
InitCallerKey == callerKey = [enc |-> encNew.key, dec |-> decNew.key]
InitAux == InitSide /\ InitCallerKey

\* The state after NewEncryptor(key, WithChunkSize(cs), [WithProgress(cb)])
\* and NewDecryptor(dkey, WithChunkSize(dcs), [WithProgress(cb)]) with the
\* environment variable not set, with the inputs of the calls to come.
InitBuilt(Ps, EKs, ECs, DKs, DCs, Starts, Rands, WithHints, WithDecHints, Progs, Faults, Files) ==
    /\ plaintext \in Ps
    /\ env = EnvUnset
    /\ ctx = "nil"
    /\ faults \in Faults
    /\ encVia \in (IF Files THEN {"EncryptStream", "EncryptFile"} ELSE {"EncryptStream"})
    /\ decVia \in (IF Files THEN {"DecryptStream", "DecryptFile"} ELSE {"DecryptStream"})
    /\ \E k \in EKs, cs \in ECs, st \in Starts, pr \in Progs :
          LET opts == [chunkSize |-> WithChunkSize(cs, env).opt, algorithm |-> <<>>,
                       progress |-> pr]
              new == NewEncryptor(k, opts, TRUE)
          IN /\ encNew = Called(k, opts, new.err)
             /\ enc = [new.inst EXCEPT !.startChunkCounter = st]
    /\ \E k \in DKs, cs \in DCs, pr \in Progs :
          LET opts == [chunkSize |-> WithChunkSize(cs, env).opt, algorithm |-> <<>>,
                       progress |-> pr]
              new == NewDecryptor(k, opts, TRUE)
          IN /\ decNew = Called(k, opts, new.err)
             /\ dec = new.inst
    /\ sizeHint \in (IF encVia = "EncryptFile" THEN {<<Len(plaintext)>>}
                     ELSE IF WithHints THEN EncHints(plaintext)
                     ELSE {<<>>, <<Len(plaintext)>>})
    /\ decSizeHint \in (IF WithDecHints /\ decVia = "DecryptStream" THEN DecHints
                        ELSE {<<>>})
    /\ rand \in Rands
    /\ InitCalls

\* The same through EncryptStream and DecryptStream only, without progress
\* callbacks and with I/O that does not fail.
InitWith(Ps, EKs, DKs, DCs, Starts, Rands, WithHints, WithDecHints) ==
    /\ InitBuilt(Ps, EKs, ChunkSizes, DKs, DCs, Starts, Rands, WithHints, WithDecHints,
                 {FALSE}, {{}}, FALSE)
    /\ InitAux

\* ------------------------------------------------------------ EncryptStream
\* encryptor.go 139-143: the size the caller announced, 0 if none.
EncTotalSizeAtLeastOne(hint) == IF Len(hint) > 0 THEN hint[1] ELSE 1
EncTotalSize(hint) == IF Len(hint) > 0 THEN hint[1] ELSE 0

\* One call of a progress callback: the value passed, kept as numerator and
\* denominator, and whether it is the call after the loop (encryptor.go
\* 258-261, decryptor.go 220-222), which passes 1.0, or the call in the loop,
\* which passes float64(written) / float64(totalSize).
Half == [num |-> 1, den |-> 2, final |-> TRUE]
One == [num |-> 1, den |-> 1, final |-> TRUE]
Fraction(w, total) == [num |-> w, den |-> total, final |-> FALSE]

\* What src.Read can return as its error: nil, io.EOF, or another error when
\* the source may fail.
ReadResults == {"nil", "EOF"} \cup (IF "encSrc" \in faults THEN {"error"} ELSE {})

\* How many bytes of a frame reach the sink: all of them, or fewer when the
\* sink may fail.
WriteResults(frame, w) ==
    IF w \in faults THEN 0..Len(frame) ELSE {Len(frame)}

\* encryptor.go 166-189: the write of the header that failed, when only k of
\* its bytes reached the sink.
HeaderWriteError(k) ==
    IF k < Len(MagicBytes) THEN "write magic bytes"
    ELSE IF k < Len(MagicBytes) + 1 THEN "write version byte"
    ELSE IF k < Len(MagicBytes) + 1 + NonceSize THEN "write nonce"
    ELSE "write file size"

\* encryptor.go 132-205: validation, cipher, base nonce, header.
EncryptStreamBody ==
    /\ run' = run + 1
    /\ srcPos' = 0 /\ reads' = <<>> /\ zeroReads' = 0
    /\ progressNext' = 0 /\ progressCalls' = <<>>
    /\ IF ~IsSupported(enc.algorithm)
       THEN /\ encPc' = "done" /\ encErr' = "unsupported algorithm"
            /\ UNCHANGED <<rand, gcm, baseNonce, aad, dst, chunkCounter, written>>
       ELSE IF enc.chunkSize <= 0 \/ enc.chunkSize > MaxChunkSize
       THEN /\ encPc' = "done" /\ encErr' = "invalid chunk size"
            /\ UNCHANGED <<rand, gcm, baseNonce, aad, dst, chunkCounter, written>>
       ELSE IF Len(Data(enc.keyBuf)) # KeySize
       THEN /\ encPc' = "done" /\ encErr' = "invalid key length"
            /\ UNCHANGED <<rand, gcm, baseNonce, aad, dst, chunkCounter, written>>
       ELSE /\ gcm' = Data(enc.keyBuf)
            /\ baseNonce' = Head(rand)
            /\ rand' = Tail(rand)
            /\ aad' = EncSizeBytes(sizeHint)
            /\ \E k \in WriteResults(EncHeader(baseNonce', aad'), "encDst") :
                  /\ dst' = SubSeq(EncHeader(baseNonce', aad'), 1, k)
                  /\ IF k < HeaderSize
                     THEN /\ encPc' = "done" /\ encErr' = HeaderWriteError(k)
                          /\ UNCHANGED <<chunkCounter, written>>
                     ELSE /\ written' = 0
                          /\ chunkCounter' = enc.startChunkCounter
                          /\ encPc' = "loop" /\ encErr' = "none"
    /\ UNCHANGED <<sealed, cfgVars, wireVars, decVars, auxVars>>

\* A call of Encryptor.EncryptStream, up to its chunk loop.
EncryptStreamBegin ==
    /\ enc # Nil
    /\ encVia = "EncryptStream"
    /\ encPc = "idle"
    /\ rand # <<>>
    /\ EncryptStreamBody
    /\ UNCHANGED dstFile

\* encryptor.go 73-116: a call of Encryptor.EncryptFile, up to the chunk loop
\* of the EncryptStream call it makes with the file size as the hint.
EncryptFileBegin ==
    /\ enc # Nil
    /\ encVia = "EncryptFile"
    /\ encPc = "idle"
    /\ rand # <<>>
    /\ sizeHint = <<Len(plaintext)>>
    /\ IF ~IsSupported(enc.algorithm) \/ enc.chunkSize <= 0 \/ enc.chunkSize > MaxChunkSize
       THEN /\ encPc' = "done"
            /\ encErr' = IF ~IsSupported(enc.algorithm) THEN "unsupported algorithm"
                         ELSE "invalid chunk size"
            /\ UNCHANGED <<rand, gcm, baseNonce, aad, srcPos, dst, dstFile, chunkCounter,
                           written, progressNext, progressCalls, reads, zeroReads, run,
                           sealed, cfgVars, wireVars, decVars, auxVars>>
       ELSE /\ dstFile' = "created"
            /\ EncryptStreamBody

\* encryptor.go 229-238: the write of a frame that failed, when only k of
\* its bytes reached the sink.
\* encryptor.go 145-158 and 226: gcm.Seal uses the cipher built at the start
\* of the call from the bytes the key buffer held then (aes.NewCipher keeps
\* its own key schedule), not the bytes the buffer holds now.
CipherKeyCurrent(built, current) == current
CipherKey(built, current) == built

ChunkWriteErrorDropped(k) == "nil"
ChunkWriteError(k) == IF k < 4 THEN "write chunk size" ELSE "write encrypted chunk"

\* encryptor.go 208-210: the poll of the context at the top of an iteration.
EncryptCanceled ==
    /\ encPc' = "done" /\ encErr' = ErrContextCanceled
    /\ UNCHANGED <<srcPos, zeroReads, reads, chunkCounter, sealed, dst,
                   written, progressNext, progressCalls>>

\* encryptor.go 212-263: an iteration of the chunk loop after its poll.  The
\* source returns n bytes (at most len(buf) = chunkSize) and err, which is
\* io.EOF only once all of the plaintext has been delivered.
EncryptIteration ==
    \E n \in 0..Min(enc.chunkSize, Len(plaintext) - srcPos), err \in ReadResults :
       /\ (err = "EOF") => (srcPos + n = Len(plaintext))
       /\ (n = 0 /\ err = "nil") => (zeroReads < MaxZeroReads)
       /\ srcPos' = srcPos + n
       /\ zeroReads' = IF n = 0 /\ err = "nil" THEN zeroReads + 1 ELSE zeroReads
       /\ reads' = IF n > 0 THEN Append(reads, n) ELSE reads
       /\ LET buf == SubSeq(plaintext, srcPos + 1, srcPos + n)
              nonce == EncChunkNonce(baseNonce, chunkCounter)
              next == (chunkCounter + 1) % U32Mod
              ciphertext == Seal(CipherKey(gcm, Data(enc.keyBuf)), nonce, buf, aad)
              frame == EncChunkFrame(ciphertext)
              total == EncTotalSize(sizeHint)
              progressStep == IF total > 0 THEN total \div 5 ELSE 0
              report == n > 0 /\ enc.progress /\ total > 0 /\ written + n >= progressNext
              calls == IF report THEN Append(progressCalls, Fraction(written + n, total))
                       ELSE progressCalls
          IN IF n > 0 /\ next = 0
             THEN /\ chunkCounter' = next
                  /\ encPc' = "done" /\ encErr' = "nonce overflow"
                  /\ UNCHANGED <<dst, written, sealed, progressNext, progressCalls>>
             ELSE \E k \in (IF n > 0 THEN WriteResults(frame, "encDst") ELSE {Len(frame)}) :
                  IF k < Len(frame)
                  THEN /\ chunkCounter' = next
                       /\ sealed' = Append(sealed,
                              [run |-> run, base |-> baseNonce, nonce |-> nonce])
                       /\ dst' = dst \o SubSeq(frame, 1, k)
                       /\ encPc' = "done"
                       /\ encErr' = ChunkWriteError(k)
                       /\ UNCHANGED <<written, progressNext, progressCalls>>
                  ELSE /\ IF n > 0
                          THEN /\ chunkCounter' = next
                               /\ sealed' = Append(sealed,
                                      [run |-> run, base |-> baseNonce, nonce |-> nonce])
                               /\ dst' = dst \o frame
                               /\ written' = written + n
                               /\ progressNext' = IF report THEN progressNext + progressStep
                                                  ELSE progressNext
                          ELSE UNCHANGED <<chunkCounter, sealed, dst, written, progressNext>>
                       /\ IF err = "EOF"
                          THEN /\ encPc' = "done" /\ encErr' = "nil"
                               /\ progressCalls' = IF enc.progress THEN Append(calls, One)
                                                   ELSE calls
                          ELSE IF err # "nil"
                          THEN /\ encPc' = "done" /\ encErr' = "read source stream"
                               /\ progressCalls' = calls
                          ELSE /\ progressCalls' = calls
                               /\ encPc' = "loop" /\ UNCHANGED encErr

\* encryptor.go 207-263: one iteration of the chunk loop.
EncryptChunk ==
    /\ encPc = "loop"
    /\ IF CtxErrNotNil(ctx) THEN EncryptCanceled ELSE EncryptIteration
    /\ UNCHANGED <<rand, gcm, baseNonce, aad, dstFile, run, cfgVars, wireVars, decVars, auxVars>>

\* The same iteration in two steps, for a context that is cancelled while
\* the iteration runs: the poll, then everything after it.
EncryptPoll ==
    /\ encPc = "loop"
    /\ IF CtxErrNotNil(ctx)
       THEN EncryptCanceled
       ELSE /\ encPc' = "iter"
            /\ UNCHANGED <<encErr, srcPos, zeroReads, reads, chunkCounter, sealed, dst,
                           written, progressNext, progressCalls>>
    /\ UNCHANGED <<rand, gcm, baseNonce, aad, dstFile, run, cfgVars, wireVars, decVars, auxVars>>

EncryptAfterPoll ==
    /\ encPc = "iter"
    /\ EncryptIteration
    /\ UNCHANGED <<rand, gcm, baseNonce, aad, dstFile, run, cfgVars, wireVars, decVars, auxVars>>

\* A further EncryptStream call on the same Encryptor, with the same source
\* content and a fresh sink.
EncryptAgain ==
    /\ encPc = "done"
    /\ rand # <<>>
    /\ attack = NotSent
    /\ encPc' = "idle" /\ encErr' = "none"
    /\ UNCHANGED <<rand, gcm, baseNonce, aad, srcPos, dst, dstFile, chunkCounter, written,
                   progressNext, progressCalls, reads,
                   zeroReads, run, sealed, cfgVars, wireVars, decVars, auxVars>>

\* ----------------------------------------------- the ciphertext on its way
RECURSIVE SumTo(_, _)
SumTo(ns, k) == IF k = 0 THEN 0 ELSE SumTo(ns, k - 1) + ns[k]

RECURSIVE Flatten(_)
Flatten(ss) == IF ss = <<>> THEN <<>> ELSE Head(ss) \o Flatten(Tail(ss))

NumChunks == Len(reads)
\* Offsets in dst of the frame of chunk i (i in 1..NumChunks): the frame is
\* dst[ChunkStart(i)+1 .. ChunkEnd(i)], its first 4 bytes are the length.
ChunkStart(i) == HeaderSize + SumTo(reads, i - 1) + (i - 1) * (4 + TagSize)
ChunkEnd(i) == ChunkStart(i) + 4 + reads[i] + TagSize
ChunkFrameAt(i) == SubSeq(dst, ChunkStart(i) + 1, ChunkEnd(i))
Frames == [i \in 1..NumChunks |-> ChunkFrameAt(i)]
HeaderOf(s) == SubSeq(s, 1, HeaderSize)
WithFrames(fs) == HeaderOf(dst) \o Flatten(fs)

Encrypted == encPc = "done" /\ encErr = "nil" /\ attack = NotSent

\* The ciphertext reaches the decryptor as written.
Deliver ==
    /\ Encrypted
    /\ decSrc' = dst
    /\ attack' = NoAttack
    /\ UNCHANGED <<cfgVars, encVars, decVars, auxVars>>

\* A proper prefix of the ciphertext reaches the decryptor.
Truncate ==
    /\ Encrypted
    /\ \E k \in 0..(Len(dst) - 1) :
          /\ decSrc' = SubSeq(dst, 1, k)
          /\ attack' = [kind |-> "truncate", at |-> k, arg |-> 0]
    /\ UNCHANGED <<cfgVars, encVars, decVars, auxVars>>

\* One byte of the ciphertext-or-tag region of chunk c is changed.
TamperChunk ==
    /\ Encrypted
    /\ \E c \in 1..NumChunks, d \in {1, ByteMod - 1} :
          \E pos \in (ChunkStart(c) + 5)..ChunkEnd(c) :
             /\ decSrc' = [dst EXCEPT ![pos] = (@ + d) % ByteMod]
             /\ attack' = [kind |-> "tamper", at |-> c, arg |-> pos]
    /\ UNCHANGED <<cfgVars, encVars, decVars, auxVars>>

SizeFieldValues == {0, 1, 2, U64Mod \div 2, U64Mod - 1}

\* The 8-byte size field of the header is replaced by another value.
TamperSize ==
    /\ Encrypted
    /\ \E v \in SizeFieldValues :
          /\ v # Uint(SubSeq(dst, HeaderSize - 7, HeaderSize))
          /\ decSrc' = SubSeq(dst, 1, HeaderSize - 8) \o PutUint64(v)
                          \o SubSeq(dst, HeaderSize + 1, Len(dst))
          /\ attack' = [kind |-> "size", at |-> 0, arg |-> v]
    /\ UNCHANGED <<cfgVars, encVars, decVars, auxVars>>

\* Chunks i and j change places.
SwapChunks ==
    /\ Encrypted
    /\ \E i \in 1..NumChunks, j \in 1..NumChunks :
          /\ i < j
          /\ decSrc' = WithFrames([k \in 1..NumChunks |->
                            IF k = i THEN Frames[j] ELSE IF k = j THEN Frames[i]
                            ELSE Frames[k]])
          /\ attack' = [kind |-> "swap", at |-> i, arg |-> j]
    /\ UNCHANGED <<cfgVars, encVars, decVars, auxVars>>

\* A copy of chunk c is inserted so that it becomes the chunk at position p.
InsertChunk ==
    /\ Encrypted
    /\ \E c \in 1..NumChunks, p \in 1..(NumChunks + 1) :
          /\ p # c
          /\ decSrc' = WithFrames([k \in 1..(NumChunks + 1) |->
                            IF k < p THEN Frames[k] ELSE IF k = p THEN Frames[c]
                            ELSE Frames[k - 1]])
          /\ attack' = [kind |-> "insert", at |-> p, arg |-> c]
    /\ UNCHANGED <<cfgVars, encVars, decVars, auxVars>>

\* Chunk d, which is not the last one, is removed.
DeleteChunk ==
    /\ Encrypted
    /\ \E d \in 1..(NumChunks - 1) :
          /\ decSrc' = WithFrames([k \in 1..(NumChunks - 1) |->
                            IF k < d THEN Frames[k] ELSE Frames[k + 1]])
          /\ attack' = [kind |-> "delete", at |-> d, arg |-> 0]
    /\ UNCHANGED <<cfgVars, encVars, decVars, auxVars>>

\* Lengths a hostile stream can carry in a chunk-length field: the ends of
\* the range the decryptor accepts, their neighbours, and the largest uint32.
WireLengths ==
    {0, 1, TagSize, TagSize + 1, MaxChunkSize + TagSize, MaxChunkSize + TagSize + 1,
     U32Mod - 1}

\* The 4-byte length field of chunk c is replaced by another value.
TamperLength ==
    /\ Encrypted
    /\ \E c \in 1..NumChunks, v \in WireLengths :
          /\ v # reads[c] + TagSize
          /\ decSrc' = SubSeq(dst, 1, ChunkStart(c)) \o PutUint32(v)
                          \o SubSeq(dst, ChunkStart(c) + 5, Len(dst))
          /\ attack' = [kind |-> "length", at |-> c, arg |-> v]
    /\ UNCHANGED <<cfgVars, encVars, decVars, auxVars>>

\* Which of the first 4 bytes are changed: one magic byte, the version byte,
\* or both.
HeaderChanges == {{1}, {2}, {3}, {4}, {1, 4}, {3, 4}}

\* Magic and version bytes are changed; what follows them is delivered as
\* written, or cut off.  attack.at is the magic byte changed (0 if none),
\* attack.arg says whether the version byte was changed.
TamperHeader ==
    /\ Encrypted
    /\ \E ps \in HeaderChanges, keep \in {4, HeaderSize, Len(dst)} :
          /\ decSrc' = [i \in 1..keep |->
                            IF i \in ps THEN (dst[i] + 1) % ByteMod ELSE dst[i]]
          /\ attack' = [kind |-> "header",
                        at |-> IF ps \cap {1, 2, 3} = {} THEN 0
                               ELSE CHOOSE i \in ps : i <= 3,
                        arg |-> IF 4 \in ps THEN 1 ELSE 0]
    /\ UNCHANGED <<cfgVars, encVars, decVars, auxVars>>

\* ------------------------------------------------------------ DecryptStream
DecFail(err) ==
    /\ decPc' = "done" /\ decErr' = err
    /\ UNCHANGED <<decGcm, decBaseNonce, decAad, totalSize, decChunkCounter,
                   decWritten, decDst>>

\* decryptor.go 109-166: validation, cipher, header.
DecryptStreamBody ==
    /\ decProgressCalls' = <<>>
    /\ LET magic == SubSeq(decSrc, 1, Len(MagicBytes))
           version == SubSeq(decSrc, Len(MagicBytes) + 1, Len(MagicBytes) + 1)
           nonceAt == Len(MagicBytes) + 1
           sizeAt == nonceAt + NonceSize
           sizeBytes == SubSeq(decSrc, sizeAt + 1, sizeAt + 8)
       IN IF ~IsSupported(dec.algorithm)
          THEN DecFail("unsupported algorithm") /\ decPos' = 0
          ELSE IF Len(SecureData(dec.keyBuf)) # KeySize
          THEN DecFail("invalid key length") /\ decPos' = 0
          ELSE IF ReadFullErr(decSrc, 0, Len(MagicBytes)) # "nil"
          THEN DecFail("read magic bytes") /\ decPos' = Len(decSrc)
          ELSE IF ~DecMagicOK(magic)
          THEN DecFail("invalid file format") /\ decPos' = Len(MagicBytes)
          ELSE IF ReadFullErr(decSrc, Len(MagicBytes), 1) # "nil"
          THEN DecFail("read version byte") /\ decPos' = Len(decSrc)
          ELSE IF ~DecVersionOK(version)
          THEN DecFail("unsupported file version") /\ decPos' = nonceAt
          ELSE IF ReadFullErr(decSrc, nonceAt, NonceSize) # "nil"
          THEN DecFail("read nonce") /\ decPos' = Len(decSrc)
          ELSE IF ReadFullErr(decSrc, sizeAt, 8) # "nil"
          THEN DecFail("read size") /\ decPos' = Len(decSrc)
          ELSE /\ decGcm' = SecureData(dec.keyBuf)
               /\ decBaseNonce' = SubSeq(decSrc, nonceAt + 1, nonceAt + NonceSize)
               /\ decAad' = sizeBytes
               /\ totalSize' = DecTotalSize(sizeBytes, decSizeHint)
               /\ decWritten' = 0
               /\ decChunkCounter' = 0
               /\ decPos' = sizeAt + 8
               /\ decPc' = "loop" /\ decErr' = "none"
               /\ UNCHANGED decDst
    /\ UNCHANGED <<cfgVars, encVars, wireVars, auxVars>>

\* A call of Decryptor.DecryptStream, up to its chunk loop.
DecryptStreamBegin ==
    /\ dec # Nil
    /\ decVia = "DecryptStream"
    /\ decPc = "idle"
    /\ attack # NotSent
    /\ DecryptStreamBody
    /\ UNCHANGED decDstFile

\* decryptor.go 70-98: a call of Decryptor.DecryptFile, up to the chunk loop
\* of the DecryptStream call it makes without a size hint.
DecryptFileBegin ==
    /\ dec # Nil
    /\ decVia = "DecryptFile"
    /\ decPc = "idle"
    /\ attack # NotSent
    /\ decSizeHint = <<>>
    /\ IF ~IsSupported(dec.algorithm)
       THEN /\ DecFail("unsupported algorithm")
            /\ UNCHANGED <<decPos, decProgressCalls, decDstFile, cfgVars, encVars, wireVars, auxVars>>
       ELSE /\ decDstFile' = "created"
            /\ DecryptStreamBody

\* decryptor.go 169-171: the poll of the context at the top of an iteration.
DecryptCanceled ==
    /\ decPc' = "done" /\ decErr' = ErrContextCanceled
    /\ UNCHANGED <<decPos, decChunkCounter, decWritten, decProgressCalls, decDst>>

\* decryptor.go 173-224: an iteration of the chunk loop after its poll, or
\* the clean end of the loop followed by the truncation check.
DecryptIteration ==
    LET lenErr == ReadFullErr(decSrc, decPos, 4)
        chunkSize == Uint(SubSeq(decSrc, decPos + 1, decPos + 4))
        ciphertext == SubSeq(decSrc, decPos + 5, decPos + 4 + chunkSize)
        nonce == DecChunkNonce(decBaseNonce, decChunkCounter)
        opened == Open(decGcm, nonce, ciphertext, decAad)
    IN IF lenErr = "EOF"
       THEN /\ decPc' = "done"
            /\ IF DecTruncated(totalSize, decWritten)
               THEN /\ decErr' = "unexpected EOF"
                    /\ UNCHANGED decProgressCalls
               ELSE /\ decErr' = "nil"
                    /\ decProgressCalls' = IF dec.progress
                                           THEN Append(decProgressCalls, One)
                                           ELSE decProgressCalls
            /\ UNCHANGED <<decPos, decChunkCounter, decWritten, decDst>>
       ELSE IF lenErr # "nil"
       THEN /\ decPc' = "done" /\ decErr' = "read chunk size"
            /\ decPos' = Len(decSrc)
            /\ UNCHANGED <<decChunkCounter, decWritten, decProgressCalls, decDst>>
       ELSE IF ~DecChunkSizeOK(chunkSize)
       THEN /\ decPc' = "done" /\ decErr' = "invalid chunk size"
            /\ decPos' = decPos + 4
            /\ UNCHANGED <<decChunkCounter, decWritten, decProgressCalls, decDst>>
       ELSE IF ReadFullErr(decSrc, decPos + 4, chunkSize) # "nil"
       THEN /\ decPc' = "done" /\ decErr' = "read encrypted chunk"
            /\ decPos' = Len(decSrc)
            /\ UNCHANGED <<decChunkCounter, decWritten, decProgressCalls, decDst>>
       ELSE /\ decPos' = decPos + 4 + chunkSize
            /\ decChunkCounter' = (decChunkCounter + 1) % U32Mod
            /\ IF ~opened.ok
               THEN /\ decPc' = "done"
                    /\ decErr' = "decrypt chunk (authentication failed)"
                    /\ UNCHANGED <<decWritten, decProgressCalls, decDst>>
               ELSE \E k \in WriteResults(opened.plaintext, "decDst") :
                    IF k < Len(opened.plaintext)
                    THEN /\ decDst' = decDst \o SubSeq(opened.plaintext, 1, k)
                         /\ decPc' = "done" /\ decErr' = "write plaintext chunk"
                         /\ UNCHANGED <<decWritten, decProgressCalls>>
                    ELSE /\ decDst' = decDst \o opened.plaintext
                         /\ decWritten' = decWritten + Len(opened.plaintext)
                         /\ decProgressCalls' =
                               IF dec.progress /\ totalSize > 0
                               THEN Append(decProgressCalls,
                                      Fraction(decWritten', totalSize))
                               ELSE decProgressCalls
                         /\ decPc' = "loop" /\ UNCHANGED decErr

\* decryptor.go 168-224: one iteration of the chunk loop.
DecryptChunk ==
    /\ decPc = "loop"
    /\ IF CtxErrNotNil(ctx) THEN DecryptCanceled ELSE DecryptIteration
    /\ UNCHANGED <<decGcm, decBaseNonce, decAad, totalSize, decDstFile, cfgVars, encVars,
                   wireVars, auxVars>>

\* The same iteration in two steps: the poll, then everything after it.
DecryptPoll ==
    /\ decPc = "loop"
    /\ IF CtxErrNotNil(ctx)
       THEN DecryptCanceled
       ELSE /\ decPc' = "iter"
            /\ UNCHANGED <<decErr, decPos, decChunkCounter, decWritten, decProgressCalls,
                           decDst>>
    /\ UNCHANGED <<decGcm, decBaseNonce, decAad, totalSize, decDstFile, cfgVars, encVars,
                   wireVars, auxVars>>

DecryptAfterPoll ==
    /\ decPc = "iter"
    /\ DecryptIteration
    /\ UNCHANGED <<decGcm, decBaseNonce, decAad, totalSize, decDstFile, cfgVars, encVars,
                   wireVars, auxVars>>

\* ------------------------------------------------- the file entry points
\* What bufferedWriter.Flush() can do with the n bytes the stream call wrote:
\* hand all of them to the file and return nil, or fail with only some of
\* them in the file, when the file may fail.
FlushResults(n, w) ==
    {[err |-> "nil", onDisk |-> n]}
       \cup (IF w \in faults
             THEN {[err |-> "flush failed", onDisk |-> k] : k \in 0..(n - 1)}
             ELSE {})

\* encryptor.go 86-116 / decryptor.go 87-106: the return statement sets the
\* result (the function's result has no name), then the deferred closure
\* runs Flush and, if it failed and the local err is nil, assigns the wrapped
\* error to the local err.  The assignment does not reach the result.
FileResult(streamErr, flushErr) == streamErr

\* encryptor.go 112-127: EncryptFile after its EncryptStream call returned.
EncryptFileReturn ==
    /\ encVia = "EncryptFile" /\ encPc = "done" /\ dstFile = "created"
    /\ ~fileRet.enc.returned
    /\ \E f \in FlushResults(Len(dst), "encFile") :
          fileRet' = [fileRet EXCEPT !.enc =
                        [returned |-> TRUE, err |-> FileResult(encErr, f.err),
                         flushErr |-> f.err, onDisk |-> f.onDisk]]
    /\ UNCHANGED <<streamVars, kdfVars, sbVars, concVars, cancelAt, callerKey>>

\* decryptor.go 94-106: DecryptFile after its DecryptStream call returned.
DecryptFileReturn ==
    /\ decVia = "DecryptFile" /\ decPc = "done" /\ decDstFile = "created"
    /\ ~fileRet.dec.returned
    /\ \E f \in FlushResults(Len(decDst), "decFile") :
          fileRet' = [fileRet EXCEPT !.dec =
                        [returned |-> TRUE, err |-> FileResult(decErr, f.err),
                         flushErr |-> f.err, onDisk |-> f.onDisk]]
    /\ UNCHANGED <<streamVars, kdfVars, sbVars, concVars, cancelAt, callerKey>>

\* The file EncryptFile left, as far as it was written, is given to
\* DecryptFile once EncryptFile has returned nil.
DeliverFile ==
    /\ attack = NotSent
    /\ fileRet.enc.returned /\ fileRet.enc.err = "nil"
    /\ decSrc' = SubSeq(dst, 1, fileRet.enc.onDisk)
    /\ attack' = IF fileRet.enc.onDisk = Len(dst) THEN NoAttack
                  ELSE [kind |-> "truncate", at |-> fileRet.enc.onDisk, arg |-> 0]
    /\ UNCHANGED <<cfgVars, encVars, decVars, auxVars>>

\* ------------------------------------------------ context, Destroy, New...
\* The context passed to the calls is cancelled or exceeds its deadline.
CtxDone ==
    /\ ctx = "nil"
    /\ ctx' \in CtxErrs
    /\ cancelAt' = [enc |-> Len(reads), dec |-> decChunkCounter,
                    encPc |-> encPc, decPc |-> decPc]
    /\ UNCHANGED <<enc, dec, encNew, decNew, env, destroys, faults, encVia, decVia,
                   plaintext, sizeHint, decSizeHint, encVars, wireVars, decVars,
                   kdfVars, sbVars, concVars, fileRet, callerKey>>

\* Arguments of the constructor calls.
KeyOfLen(n) == [i \in 1..n |-> 1]
NewKeys == {KeyOfLen(n) : n \in {0, KeySize \div 2, KeySize - 1, KeySize, KeySize + 1}}
SizeArgs == {<<>>} \cup {<<n>> : n \in (-1)..(MaxChunkSize + 2)}
AlgArgs == {<<>>} \cup {<<a>> : a \in Algorithms}

\* The caller builds the options (WithChunkSize reads the environment
\* variable) and, if that gave no error, calls the constructor.
BuildOpts(size, alg, prog) ==
    LET w == IF size = <<>> THEN [err |-> "nil", opt |-> <<>>]
             ELSE WithChunkSize(size[1], env)
    IN [err |-> w.err,
        opts |-> [chunkSize |-> w.opt, algorithm |-> alg, progress |-> prog]]

\* The first half of the public EncryptFile / EncryptStream, or a direct call
\* of core.NewEncryptor: fileencrypt.go 37-48, 65-75.
NewEncryptorCall ==
    /\ ~encNew.called
    /\ \E key \in NewKeys, size \in SizeArgs, alg \in AlgArgs :
          LET b == BuildOpts(size, alg, FALSE)
              new == NewEncryptor(key, b.opts, TRUE)
          IN /\ callerKey' = [callerKey EXCEPT !.enc = key]
             /\ IF b.err # "nil"
                THEN /\ encNew' = [called |-> TRUE, key |-> key, size |-> size,
                                   opts |-> b.opts, optErr |-> b.err, err |-> "none"]
                     /\ UNCHANGED enc
                ELSE /\ encNew' = [called |-> TRUE, key |-> key, size |-> size,
                                   opts |-> b.opts, optErr |-> "nil", err |-> new.err]
                     /\ enc' = new.inst
    /\ UNCHANGED <<dec, decNew, env, ctx, destroys, faults, encVia, decVia, plaintext,
                   sizeHint, decSizeHint, encVars, wireVars, decVars, sideVars>>

\* fileencrypt.go 52-62, 78-88.
NewDecryptorCall ==
    /\ ~decNew.called
    /\ \E key \in {KeyOfLen(KeySize \div 2), KeyA},
          size \in {<<>>, <<1>>, <<MaxChunkSize + 1>>}, alg \in AlgArgs :
          LET b == BuildOpts(size, alg, FALSE)
              new == NewDecryptor(key, b.opts, TRUE)
          IN /\ callerKey' = [callerKey EXCEPT !.dec = key]
             /\ IF b.err # "nil"
                THEN /\ decNew' = [called |-> TRUE, key |-> key, size |-> size,
                                   opts |-> b.opts, optErr |-> b.err, err |-> "none"]
                     /\ UNCHANGED dec
                ELSE /\ decNew' = [called |-> TRUE, key |-> key, size |-> size,
                                   opts |-> b.opts, optErr |-> "nil", err |-> new.err]
                     /\ dec' = new.inst
    /\ UNCHANGED <<enc, encNew, env, ctx, destroys, faults, encVia, decVia, plaintext,
                   sizeHint, decSizeHint, encVars, wireVars, decVars, sideVars>>

\* encryptor.go 267-271.
EncryptorDestroy ==
    /\ enc # Nil
    /\ destroys.enc < MaxDestroys
    /\ destroys' = [destroys EXCEPT !.enc = @ + 1]
    /\ enc' = [enc EXCEPT !.keyBuf = Destroy(@)]
    /\ callerKey' = IF enc.keyBuf.block = "arg"
                    THEN [callerKey EXCEPT !.enc = Data(enc'.keyBuf)]
                    ELSE callerKey
    /\ UNCHANGED <<dec, encNew, decNew, env, ctx, faults, encVia, decVia, plaintext,
                   sizeHint, decSizeHint, encVars, wireVars, decVars, sideVars>>

\* decryptor.go 228-232.
DecryptorDestroy ==
    /\ dec # Nil
    /\ destroys.dec < MaxDestroys
    /\ destroys' = [destroys EXCEPT !.dec = @ + 1]
    /\ dec' = [dec EXCEPT !.keyBuf = SecureDestroy(@)]
    /\ callerKey' = IF dec.keyBuf.block = "arg"
                    THEN [callerKey EXCEPT !.dec = SecureData(dec'.keyBuf)]
                    ELSE callerKey
    /\ UNCHANGED <<enc, encNew, decNew, env, ctx, faults, encVia, decVia, plaintext,
                   sizeHint, decSizeHint, encVars, wireVars, decVars, sideVars>>

\* The caller overwrites a key slice it passed to a constructor, with zeros
\* (the usual defer secure.Zero(key)) or with other bytes.  An instance whose
\* buffer lived in the caller's block would see the new bytes.
CallerOverwrite ==
    /\ \E who \in {"enc", "dec"}, v \in Keys \cup {KeyZero} :
          /\ v # callerKey[who]
          /\ callerKey' = [callerKey EXCEPT ![who] = v]
          /\ IF who = "enc"
             THEN /\ enc # Nil
                  /\ enc' = IF enc.keyBuf.block = "arg" THEN [enc EXCEPT !.keyBuf.buf = v]
                            ELSE enc
                  /\ UNCHANGED dec
             ELSE /\ dec # Nil
                  /\ dec' = IF dec.keyBuf.block = "arg" THEN [dec EXCEPT !.keyBuf.buf = v]
                            ELSE dec
                  /\ UNCHANGED enc
    /\ UNCHANGED <<encNew, decNew, env, ctx, destroys, faults, encVia, decVia, plaintext,
                   sizeHint, decSizeHint, encVars, wireVars, decVars, sideVars>>

\* ------------------------------------------------------- key-derivation calls
\* Arguments around every threshold of the validation.
Passwords == {<<>>, <<1>>}
Salts == {[i \in 1..n |-> 0] : n \in {0, MinSaltLen - 1, MinSaltLen, 2 * MinSaltLen}}
IterationArgs == {-1, 0, MinPBKDF2Iterations - 1, MinPBKDF2Iterations, 600000}
KeyLenArgs == {0, 1, 32, MaxDerivedKeyLen, MaxDerivedKeyLen + 1}
TimeArgs == {0, 1, 3}
MemoryArgs == {0, MinArgon2Memory - 1, MinArgon2Memory, 64 * 1024}
ThreadArgs == {0, 1, 4}

Pbkdf2Calls ==
    {[fn |-> "PBKDF2", called |-> FALSE, res |-> NoResult,
      args |-> [password |-> pw, salt |-> st, iterations |-> it, keyLen |-> kl]] :
        pw \in Passwords, st \in Salts, it \in IterationArgs, kl \in KeyLenArgs \cup {-1}}

Argon2Calls ==
    {[fn |-> "Argon2", called |-> FALSE, res |-> NoResult,
      args |-> [password |-> pw, salt |-> st, time |-> tm, memory |-> mm,
                threads |-> th, keyLen |-> kl]] :
        pw \in Passwords, st \in Salts, tm \in TimeArgs, mm \in MemoryArgs,
        th \in ThreadArgs, kl \in KeyLenArgs}

\* A call of DeriveKeyPBKDF2.
DeriveKeyPBKDF2Call ==
    /\ kdf.fn = "PBKDF2" /\ ~kdf.called
    /\ kdf' = [kdf EXCEPT !.called = TRUE,
                          !.res = DeriveKeyPBKDF2(kdf.args.password, kdf.args.salt,
                                                  kdf.args.iterations, kdf.args.keyLen)]
    /\ UNCHANGED <<streamVars, sbVars, concVars, callerKey, ctlVars>>

\* A call of DeriveKeyArgon2.
DeriveKeyArgon2Call ==
    /\ kdf.fn = "Argon2" /\ ~kdf.called
    /\ kdf' = [kdf EXCEPT !.called = TRUE,
                          !.res = DeriveKeyArgon2(kdf.args.password, kdf.args.salt,
                                                  kdf.args.time, kdf.args.memory,
                                                  kdf.args.threads, kdf.args.keyLen)]
    /\ UNCHANGED <<streamVars, sbVars, concVars, callerKey, ctlVars>>

\* ------------------------------------- goroutines on one SecureBuffer
Callers == 1..NumCallers

\* sync.Mutex: Lock returns only when no goroutine holds the mutex.
MuAny(m) == TRUE
MuFree(m) == m = 0

\* secure_buffer.go 45 / 52: s.mu.Lock().
SbLock(t) ==
    /\ sbCalls[t].pc = "start"
    /\ MuFree(mu)
    /\ mu' = t
    /\ sbCalls' = [sbCalls EXCEPT ![t].pc = "locked"]
    /\ UNCHANGED <<sb, zeroCalls, streamVars, kdfVars, concVars, callerKey, ctlVars>>

\* secure_buffer.go 55: if !s.zeroed.
DestroyTest(t) ==
    /\ sbCalls[t].op = "Destroy" /\ sbCalls[t].pc = "locked"
    /\ sbCalls' = [sbCalls EXCEPT ![t].pc = IF ~sb.zeroed THEN "zero" ELSE "unlock"]
    /\ UNCHANGED <<sb, mu, zeroCalls, streamVars, kdfVars, concVars, callerKey, ctlVars>>

\* secure_buffer.go 57: secure.Zero(s.buf).
DestroyZero(t) ==
    /\ sbCalls[t].op = "Destroy" /\ sbCalls[t].pc = "zero"
    /\ sb' = [sb EXCEPT !.buf = Zero(@)]
    /\ zeroCalls' = zeroCalls + 1
    /\ sbCalls' = [sbCalls EXCEPT ![t].pc = "mark"]
    /\ UNCHANGED <<mu, streamVars, kdfVars, concVars, callerKey, ctlVars>>

\* secure_buffer.go 58: s.zeroed = true.
DestroyMark(t) ==
    /\ sbCalls[t].op = "Destroy" /\ sbCalls[t].pc = "mark"
    /\ sb' = [sb EXCEPT !.zeroed = TRUE]
    /\ sbCalls' = [sbCalls EXCEPT ![t].pc = "release"]
    /\ UNCHANGED <<mu, zeroCalls, streamVars, kdfVars, concVars, callerKey, ctlVars>>

\* secure_buffer.go 61-63: s.unlock().
DestroyRelease(t) ==
    /\ sbCalls[t].op = "Destroy" /\ sbCalls[t].pc = "release"
    /\ sb' = [sb EXCEPT !.locked = FALSE, !.unlocks = @ + 1]
    /\ sbCalls' = [sbCalls EXCEPT ![t].pc = "unlock"]
    /\ UNCHANGED <<mu, zeroCalls, streamVars, kdfVars, concVars, callerKey, ctlVars>>

\* secure_buffer.go 47: return s.buf.
DataRead(t) ==
    /\ sbCalls[t].op = "Data" /\ sbCalls[t].pc = "locked"
    /\ sbCalls' = [sbCalls EXCEPT ![t].pc = "unlock", ![t].seen = sb.buf]
    /\ UNCHANGED <<sb, mu, zeroCalls, streamVars, kdfVars, concVars, callerKey, ctlVars>>

\* secure_buffer.go 46 / 53: the deferred s.mu.Unlock(), then the return.
SbUnlock(t) ==
    /\ sbCalls[t].pc = "unlock"
    /\ mu' = 0
    /\ sbCalls' = [sbCalls EXCEPT ![t].pc = "returned"]
    /\ UNCHANGED <<sb, zeroCalls, streamVars, kdfVars, concVars, callerKey, ctlVars>>

\* --------------------------------------------- goroutines in EncryptStream
Workers == 1..NumWorkers

\* Encryptor 1 is enc; Encryptor 2 is another instance built by the same
\* NewEncryptor call (same key bytes, same options).
EncOf(i) == IF i = 1 THEN enc ELSE NewEncryptor(encNew.key, encNew.opts, TRUE).inst

\* sync.Pool.Get on a pool holding the buffers free, when made buffers exist:
\* one of the pooled buffers, or a new one from New (number made + 1).
PoolGetAny(free, made) == 1..(made + 1)
PoolGet(free, made) == free \cup {made + 1}

\* encryptor.go 63-68: what New makes.
NewBuf(chunkSize) == [i \in 1..chunkSize |-> 0]

\* encryptor.go 132-191: validation, cipher, base nonce, header.
WorkerBegin(w) ==
    /\ workers[w].pc = "idle"
    /\ LET me == workers[w]
           e == EncOf(me.inst)
           err == IF ~IsSupported(e.algorithm) THEN "unsupported algorithm"
                  ELSE IF e.chunkSize <= 0 \/ e.chunkSize > MaxChunkSize
                  THEN "invalid chunk size"
                  ELSE IF Len(Data(e.keyBuf)) # KeySize THEN "invalid key length"
                  ELSE "none"
           sizeBytes == EncSizeBytes(me.hint)
       IN workers' = [workers EXCEPT ![w] =
              IF err # "none" THEN [me EXCEPT !.pc = "done", !.err = err]
              ELSE [me EXCEPT !.pc = "get", !.gcm = Data(e.keyBuf), !.baseNonce = me.rnd,
                              !.aad = sizeBytes, !.dst = EncHeader(me.rnd, sizeBytes)]]
    /\ UNCHANGED <<pool, bufMem, streamVars, kdfVars, sbVars, callerKey, ctlVars>>

\* encryptor.go 195-199: bufPtr := e.bufferPool.Get(), and the locals.
WorkerGet(w) ==
    /\ workers[w].pc = "get"
    /\ LET me == workers[w]
           e == EncOf(me.inst)
       IN \E b \in PoolGet(pool[me.inst], Len(bufMem)) :
             /\ pool' = [pool EXCEPT ![me.inst] = @ \ {b}]
             /\ bufMem' = IF b > Len(bufMem) THEN Append(bufMem, NewBuf(e.chunkSize))
                          ELSE bufMem
             /\ workers' = [workers EXCEPT ![w] =
                    [me EXCEPT !.pc = "read", !.buf = b,
                               !.chunkCounter = e.startChunkCounter]]
    /\ UNCHANGED <<streamVars, kdfVars, sbVars, callerKey, ctlVars>>

\* encryptor.go 211: n, err := src.Read(buf) on a bytes.Reader: as many bytes
\* as fit, or (0, io.EOF) when none is left.
WorkerRead(w) ==
    /\ workers[w].pc = "read"
    /\ LET me == workers[w]
           n == Min(Len(bufMem[me.buf]), Len(me.pt) - me.srcPos)
       IN /\ bufMem' = [bufMem EXCEPT ![me.buf] =
                 [i \in 1..Len(@) |-> IF i <= n THEN me.pt[me.srcPos + i] ELSE @[i]]]
          /\ workers' = [workers EXCEPT ![w] =
                 [me EXCEPT !.pc = "seal", !.n = n, !.eof = (n = 0),
                            !.srcPos = me.srcPos + n]]
    /\ UNCHANGED <<pool, streamVars, kdfVars, sbVars, callerKey, ctlVars>>

\* encryptor.go 212-256: the chunk in buf[:n] is sealed and written.
WorkerSeal(w) ==
    /\ workers[w].pc = "seal"
    /\ LET me == workers[w]
           nonce == EncChunkNonce(me.baseNonce, me.chunkCounter)
           next == (me.chunkCounter + 1) % U32Mod
           ciphertext == Seal(me.gcm, nonce, SubSeq(bufMem[me.buf], 1, me.n), me.aad)
       IN workers' = [workers EXCEPT ![w] =
              IF me.n > 0 /\ next = 0
              THEN [me EXCEPT !.pc = "put", !.err = "nonce overflow", !.chunkCounter = next]
              ELSE IF me.n > 0
              THEN [me EXCEPT !.pc = "read", !.chunkCounter = next,
                              !.dst = @ \o EncChunkFrame(ciphertext)]
              ELSE [me EXCEPT !.pc = "put", !.err = "nil"]]
    /\ UNCHANGED <<pool, bufMem, streamVars, kdfVars, sbVars, callerKey, ctlVars>>

\* encryptor.go 196: the deferred e.bufferPool.Put(bufPtr), then the return.
WorkerPut(w) ==
    /\ workers[w].pc = "put"
    /\ LET me == workers[w]
       IN /\ pool' = [pool EXCEPT ![me.inst] = @ \cup {me.buf}]
          /\ workers' = [workers EXCEPT ![w] = [me EXCEPT !.pc = "done", !.buf = 0]]
    /\ UNCHANGED <<bufMem, streamVars, kdfVars, sbVars, callerKey, ctlVars>>

\* EncryptStream run alone on a source that fills every buffer: the frames
\* of the chunks of pt from chunk number counter on, and the whole output.
RECURSIVE AloneFrames(_, _, _, _, _, _)
AloneFrames(key, base, bytes, pt, chunkSize, counter) ==
    IF pt = <<>> THEN <<>>
    ELSE LET n == Min(chunkSize, Len(pt))
         IN EncChunkFrame(Seal(key, EncChunkNonce(base, counter), SubSeq(pt, 1, n), bytes))
               \o AloneFrames(key, base, bytes, SubSeq(pt, n + 1, Len(pt)), chunkSize,
                              counter + 1)

RunAlone(key, base, hint, pt, chunkSize) ==
    EncHeader(base, EncSizeBytes(hint))
       \o AloneFrames(key, base, EncSizeBytes(hint), pt, chunkSize, 0)

\* ----------------------------------------------------------- specifications
OneNonce == {<<n>> : n \in {NonceA, NonceC}}

\* The library as shipped (startChunkCounter is 0): encrypt, hand the
\* ciphertext over unchanged, decrypt.
Init == InitWith(Plaintexts, Keys, Keys, ChunkSizes, {0}, OneNonce, TRUE, TRUE)

Next ==
    \/ EncryptStreamBegin
    \/ EncryptChunk
    \/ Deliver
    \/ DecryptStreamBegin
    \/ DecryptChunk

Spec == Init /\ [][Next]_vars

\* The same with the ciphertext changed on its way to the decryptor, which
\* holds the right key.
InitAttack == InitWith(Plaintexts, {KeyA}, {KeyA}, {1}, {0}, {<<NonceA>>}, FALSE, FALSE)

NextAttack ==
    \/ EncryptStreamBegin
    \/ EncryptChunk
    \/ Truncate
    \/ TamperChunk
    \/ TamperSize
    \/ SwapChunks
    \/ InsertChunk
    \/ DeleteChunk
    \/ DecryptStreamBegin
    \/ DecryptChunk

SpecAttack == InitAttack /\ [][NextAttack]_vars

\* The encryptor alone, called twice, with the chunk counter preset by the
\* test hook SetEncryptorChunkCounter.
InitHook ==
    InitWith(Plaintexts, {KeyA}, {KeyA}, {1}, {0, U32Mod - 2, U32Mod - 1},
             {<<a, b>> : a \in BaseNonces, b \in BaseNonces}, FALSE, FALSE)

NextHook ==
    \/ EncryptStreamBegin
    \/ EncryptChunk
    \/ EncryptAgain

SpecHook == InitHook /\ [][NextHook]_vars

\* A context that can be cancelled or time out at any moment, around the
\* stream and the file entry points.
InitCtl ==
    /\ InitBuilt(Plaintexts, {KeyA}, ChunkSizes, {KeyA}, {1}, {0}, {<<NonceA>>}, FALSE, FALSE,
                 {FALSE}, {{}}, TRUE)
    /\ InitAux

NextCtl ==
    \/ EncryptStreamBegin
    \/ EncryptFileBegin
    \/ EncryptChunk
    \/ CtxDone
    \/ Deliver
    \/ DecryptStreamBegin
    \/ DecryptFileBegin
    \/ DecryptChunk

SpecCtl == InitCtl /\ [][NextCtl]_vars

\* Progress callbacks configured on both sides, with every way a call can
\* end: a context that is cancelled, a source or a sink that fails, a
\* ciphertext that is cut or changed on its way.
FaultSets == {{}, {"encSrc"}, {"encDst"}, {"decDst"}}

InitProg ==
    /\ InitBuilt({<<>>, <<0, 1>>}, {KeyA}, {1}, {KeyA}, {1}, {0}, {<<NonceA>>}, TRUE, TRUE,
                 {TRUE}, FaultSets, TRUE)
    /\ InitAux

NextProg ==
    \/ EncryptStreamBegin
    \/ EncryptFileBegin
    \/ EncryptChunk
    \/ CtxDone
    \/ Deliver
    \/ Truncate
    \/ TamperChunk
    \/ DecryptStreamBegin
    \/ DecryptFileBegin
    \/ DecryptChunk

SpecProg == InitProg /\ [][NextProg]_vars

\* The life of the key buffers: Destroy may be called on either instance at
\* any moment, any number of times, around and during the calls; LockMemory
\* may have failed when a buffer was made.
InitLife ==
    /\ plaintext = <<0, 1>>
    /\ env = EnvUnset
    /\ ctx = "nil"
    /\ faults = {}
    /\ encVia = "EncryptStream" /\ decVia = "DecryptStream"
    /\ \E k \in Keys, lockOK \in BOOLEAN :
          /\ encNew = Called(k, NoOpts, "nil")
          /\ enc = NewEncryptor(k, NoOpts, lockOK).inst
    /\ \E k \in Keys, lockOK \in BOOLEAN :
          /\ decNew = Called(k, NoOpts, "nil")
          /\ dec = NewDecryptor(k, NoOpts, lockOK).inst
    /\ sizeHint = <<>>
    /\ decSizeHint = <<>>
    /\ rand = <<NonceA>>
    /\ InitCalls
    /\ InitAux

NextLife ==
    \/ EncryptorDestroy
    \/ DecryptorDestroy
    \/ EncryptStreamBegin
    \/ EncryptChunk
    \/ Deliver
    \/ DecryptStreamBegin
    \/ DecryptChunk

SpecLife == InitLife /\ [][NextLife]_vars

\* The caller's key slices: after construction the caller may overwrite
\* them at any moment, around and during the calls and the Destroy calls.
InitCopy ==
    /\ plaintext = <<0, 1>>
    /\ env = EnvUnset
    /\ ctx = "nil"
    /\ faults = {}
    /\ encVia = "EncryptStream" /\ decVia = "DecryptStream"
    /\ \E k \in Keys :
          /\ encNew = Called(k, NoOpts, "nil")
          /\ enc = NewEncryptor(k, NoOpts, TRUE).inst
          /\ decNew = Called(k, NoOpts, "nil")
          /\ dec = NewDecryptor(k, NoOpts, TRUE).inst
    /\ sizeHint = <<>>
    /\ decSizeHint = <<>>
    /\ rand = <<NonceA>>
    /\ InitCalls
    /\ InitAux

NextCopy ==
    \/ CallerOverwrite
    \/ EncryptorDestroy
    \/ DecryptorDestroy
    \/ EncryptStreamBegin
    \/ EncryptChunk
    \/ Deliver
    \/ DecryptStreamBegin
    \/ DecryptChunk

SpecCopy == InitCopy /\ [][NextCopy]_vars

\* Construction first: the public functions and the constructors, called
\* with any key length, chunk size and algorithm, under any setting of the
\* environment variable.
Envs ==
    {EnvUnset, EnvUnparseable, EnvLimit(0), EnvLimit(1), EnvLimit(MaxChunkSize + 1),
     EnvLimit(MaxInt), EnvLimit(MaxInt + 1)}

InitNew ==
    /\ plaintext = <<0, 1>>
    /\ env \in Envs
    /\ ctx = "nil"
    /\ faults = {}
    /\ encVia \in {"EncryptStream", "EncryptFile"}
    /\ decVia \in {"DecryptStream", "DecryptFile"}
    /\ enc = Nil /\ encNew = NotCalled
    /\ dec = Nil /\ decNew = NotCalled
    /\ sizeHint = (IF encVia = "EncryptFile" THEN <<Len(plaintext)>> ELSE <<>>)
    /\ decSizeHint = <<>>
    /\ rand = <<NonceA>>
    /\ InitCalls
    /\ InitAux

NextNew ==
    \/ NewEncryptorCall
    \/ NewDecryptorCall
    \/ EncryptStreamBegin
    \/ EncryptFileBegin
    \/ EncryptChunk
    \/ Deliver
    \/ DecryptStreamBegin
    \/ DecryptFileBegin
    \/ DecryptChunk

SpecNew == InitNew /\ [][NextNew]_vars

\* A hostile or damaged input stream: the ciphertext is cut anywhere, or a
\* byte of a chunk, a chunk-length field, the magic or the version is
\* changed, and the decryptor holds the right key or another one. What the
\* decryptor does with such input depends on the plaintext's length, not on
\* its bytes: one plaintext of each length is sent.
WirePlaintexts == {p \in Plaintexts : \A i \in 1..Len(p) : p[i] = i % 2}

InitWire == InitWith(WirePlaintexts, {KeyA}, Keys, {1}, {0}, {<<NonceA>>}, FALSE, FALSE)

NextWire ==
    \/ EncryptStreamBegin
    \/ EncryptChunk
    \/ Deliver
    \/ Truncate
    \/ TamperChunk
    \/ TamperLength
    \/ TamperHeader
    \/ DecryptStreamBegin
    \/ DecryptChunk

SpecWire == InitWire /\ [][NextWire]_vars

\* The two key-derivation functions, called with arguments on both sides
\* of every limit.
InitKdf ==
    /\ InitBuilt({<<>>}, {KeyA}, {1}, {KeyA}, {1}, {0}, {<<NonceA>>}, FALSE, FALSE,
                 {FALSE}, {{}}, FALSE)
    /\ kdf \in Pbkdf2Calls \cup Argon2Calls
    /\ InitSbVars /\ InitConcVars /\ InitCtlVars /\ InitCallerKey

NextKdf ==
    \/ DeriveKeyPBKDF2Call
    \/ DeriveKeyArgon2Call

SpecKdf == InitKdf /\ [][NextKdf]_vars

\* Goroutines that each call Destroy or Data on one SecureBuffer, in any
\* interleaving of their steps.
InitSb ==
    /\ InitBuilt({<<>>}, {KeyA}, {1}, {KeyA}, {1}, {0}, {<<NonceA>>}, FALSE, FALSE,
                 {FALSE}, {{}}, FALSE)
    /\ InitKdfVars /\ InitConcVars /\ InitCtlVars /\ InitCallerKey
    /\ \E k \in Keys, lockOK \in BOOLEAN : sb = NewSecureBufferFromBytes(k, lockOK)
    /\ mu = 0
    /\ zeroCalls = 0
    /\ \E ops \in [Callers -> {"Destroy", "Data"}] :
          sbCalls = [t \in Callers |-> [op |-> ops[t], pc |-> "start", seen |-> <<>>]]

NextSb ==
    \E t \in Callers :
        \/ SbLock(t)
        \/ DestroyTest(t)
        \/ DestroyZero(t)
        \/ DestroyMark(t)
        \/ DestroyRelease(t)
        \/ DataRead(t)
        \/ SbUnlock(t)

SpecSb == InitSb /\ [][NextSb]_vars

\* Goroutines that run EncryptStream at the same time, on one Encryptor or on
\* two built from the same key bytes, while a Decryptor built from those
\* bytes decrypts a stream of its own.
WorkerInput(w) == <<w % ByteMod, 0>>
WorkerNonce(w) == [i \in 1..NonceSize |-> IF i = 2 THEN w % ByteMod ELSE 0]

InitConc ==
    /\ InitBuilt({<<0, 1>>}, {KeyA}, {1}, {KeyA}, {1}, {0}, {<<>>}, FALSE, FALSE,
                 {FALSE}, {{}}, FALSE)
    /\ InitKdfVars /\ InitSbVars /\ InitCtlVars /\ InitCallerKey
    /\ \E shared \in BOOLEAN :
          /\ workers = [w \in Workers |->
                [inst |-> IF shared \/ w = 1 THEN 1 ELSE 2, pt |-> WorkerInput(w),
                 hint |-> IF w = 1 THEN <<>> ELSE <<Len(WorkerInput(w))>>,
                 rnd |-> WorkerNonce(w),
                 pc |-> "idle", err |-> "none", gcm |-> <<>>, baseNonce |-> <<>>,
                 aad |-> <<>>, buf |-> 0, n |-> 0, eof |-> FALSE, srcPos |-> 0,
                 chunkCounter |-> 0, dst |-> <<>>]]
    /\ pool = [i \in {1, 2} |-> {}]
    /\ bufMem = <<>>

\* The Decryptor is handed the stream of the plaintext under base nonce
\* NonceB, made earlier with the same key.
DeliverEarlier ==
    /\ attack = NotSent
    /\ decSrc' = RunAlone(Data(enc.keyBuf), NonceB, sizeHint, plaintext, enc.chunkSize)
    /\ attack' = NoAttack
    /\ UNCHANGED <<cfgVars, encVars, decVars, auxVars>>

NextConc ==
    \/ \E w \in Workers :
          \/ WorkerBegin(w)
          \/ WorkerGet(w)
          \/ WorkerRead(w)
          \/ WorkerSeal(w)
          \/ WorkerPut(w)
    \/ DeliverEarlier
    \/ DecryptStreamBegin
    \/ DecryptChunk

SpecConc == InitConc /\ [][NextConc]_vars

\* A context that is cancelled at any moment, also between the poll of an
\* iteration and its read, around calls whose input may have a damaged
\* header.
InitPoll ==
    /\ InitBuilt(WirePlaintexts, {KeyA}, {1}, {KeyA}, {1}, {0}, {<<NonceA>>}, FALSE, FALSE,
                 {FALSE}, {{}}, FALSE)
    /\ InitAux

NextPoll ==
    \/ EncryptStreamBegin
    \/ EncryptPoll
    \/ EncryptAfterPoll
    \/ CtxDone
    \/ Deliver
    \/ TamperHeader
    \/ DecryptStreamBegin
    \/ DecryptPoll
    \/ DecryptAfterPoll

SpecPoll == InitPoll /\ [][NextPoll]_vars

\* Streams long enough for the chunk counter to wrap: with chunks of one
\* byte, one plaintext needing as many chunks as a uint32 has values, and
\* one needing one chunk fewer.
LongPlaintext(n) == [i \in 1..n |-> i % 2]

InitCap ==
    /\ InitBuilt({LongPlaintext(U32Mod - 1), LongPlaintext(U32Mod)}, {KeyA}, {1}, {KeyA},
                 {1}, {0}, {<<NonceA>>}, FALSE, FALSE, {FALSE}, {{}}, FALSE)
    /\ InitAux

NextCap ==
    \/ EncryptStreamBegin
    \/ EncryptChunk

SpecCap == InitCap /\ [][NextCap]_vars

\* Readers and writers that fail: the source of EncryptStream returns an
\* error, with or without bytes; a sink accepts only part of a write; the
\* input of DecryptStream ends anywhere.
InitIo ==
    /\ InitBuilt({<<>>, <<0, 1>>}, {KeyA}, ChunkSizes, {KeyA}, {1}, {0}, {<<NonceA>>},
                 FALSE, FALSE, {FALSE}, FaultSets, FALSE)
    /\ InitAux

NextIo ==
    \/ EncryptStreamBegin
    \/ EncryptChunk
    \/ Deliver
    \/ Truncate
    \/ DecryptStreamBegin
    \/ DecryptChunk

SpecIo == InitIo /\ [][NextIo]_vars

\* EncryptFile and DecryptFile on files whose final flush may fail.
FileFaultSets == {{}, {"encFile"}, {"decFile"}}

InitFile ==
    /\ InitBuilt(WirePlaintexts, {KeyA}, ChunkSizes, {KeyA}, {1}, {0}, {<<NonceA>>}, FALSE,
                 FALSE, {FALSE}, FileFaultSets, TRUE)
    /\ encVia = "EncryptFile" /\ decVia = "DecryptFile"
    /\ InitAux

NextFile ==
    \/ EncryptFileBegin
    \/ EncryptChunk
    \/ EncryptFileReturn
    \/ DeliverFile
    \/ DecryptFileBegin
    \/ DecryptChunk
    \/ DecryptFileReturn

SpecFile == InitFile /\ [][NextFile]_vars

\* Every way a call can end, with calls whose loop is always scheduled again:
\* a source that fails or returns no bytes, a sink that fails, a counter
\* about to wrap, a context that is cancelled, an input of DecryptStream
\* that is cut or changed.  The goroutine that runs a chunk loop keeps
\* running, so an iteration that can be taken is taken.
InitTerm ==
    /\ InitBuilt({<<0, 1>>}, {KeyA}, {1}, {KeyA}, {1}, {0, U32Mod - 1},
                 {<<NonceA>>}, FALSE, FALSE, {FALSE}, FaultSets, FALSE)
    /\ InitAux

NextTerm ==
    \/ EncryptStreamBegin
    \/ EncryptChunk
    \/ CtxDone
    \/ Deliver
    \/ Truncate
    \/ TamperLength
    \/ TamperHeader
    \/ DecryptStreamBegin
    \/ DecryptChunk

SpecTerm ==
    InitTerm /\ [][NextTerm]_vars /\ WF_vars(EncryptChunk) /\ WF_vars(DecryptChunk)

\* ------------------------------------------------------------------- claims
AuthError == "decrypt chunk (authentication failed)"
\* The plaintext of the first k chunks the encryptor wrote.
PlainOfChunks(k) == SubSeq(plaintext, 1, SumTo(reads, k))
\* An EncryptStream call with no size hint or with the real size as the hint.
PlainHint == sizeHint \in {<<>>, <<Len(plaintext)>>}

\* C1: round trip.  When the unchanged output of a successful EncryptStream
\* (no size hint, or the real size) has been decrypted with the same key,
\* DecryptStream returned nil and its sink holds exactly the plaintext.
C1_RoundTrip ==
    (decPc = "done" /\ attack = NoAttack /\ SecureData(dec.keyBuf) = Data(enc.keyBuf)
        /\ PlainHint /\ decSizeHint = <<>>)
    => (decErr = "nil" /\ decDst = plaintext)

C1_Witness ==
    /\ decPc = "done" /\ attack = NoAttack /\ SecureData(dec.keyBuf) = Data(enc.keyBuf)
    /\ sizeHint = <<Len(plaintext)>> /\ decSizeHint = <<>>
    /\ Len(reads) = 2 /\ plaintext = <<0, 1>>
    /\ dec.chunkSize # enc.chunkSize
    /\ decErr = "nil" /\ decDst = plaintext

\* The expected total as the format defines it: the declared size of the
\* header (an unsigned 64-bit number) if it is not 0, else the caller's hint.
DeclaredSize == Uint(SubSeq(decSrc, HeaderSize - 7, HeaderSize))
ExpectedTotal ==
    IF DeclaredSize # 0 THEN DeclaredSize
    ELSE IF Len(decSizeHint) > 0 THEN decSizeHint[1] ELSE 0

\* C2: truncation check.  Whenever DecryptStream returned nil and the
\* expected total is not 0, the number of bytes written equals it.
C2_TruncationCheck ==
    (decPc = "done" /\ decErr = "nil" /\ ExpectedTotal # 0)
    => decWritten = ExpectedTotal

\* C3: truncation detection.  Decrypting a proper prefix of the ciphertext
\* of a non-empty plaintext with the right key never returns nil.
C3_TruncationDetected ==
    (decPc = "done" /\ attack.kind = "truncate" /\ plaintext # <<>>)
    => decErr # "nil"

\* C4: tamper detection.  After a byte of the ciphertext-or-tag region of
\* chunk c was changed, the sink never holds more than the plaintext of the
\* chunks before c, and DecryptStream ends with the authentication error.
C4_TamperDetected ==
    (attack.kind = "tamper")
    => /\ Len(decDst) <= SumTo(reads, attack.at - 1)
       /\ decDst = SubSeq(plaintext, 1, Len(decDst))
       /\ (decPc = "done") => /\ decErr = AuthError
                              /\ decDst = PlainOfChunks(attack.at - 1)

C4_Witness ==
    /\ attack.kind = "tamper" /\ attack.at = 2
    /\ attack.arg = ChunkEnd(2)
    /\ decPc = "done" /\ decErr = AuthError
    /\ decDst = PlainOfChunks(1) /\ decDst # <<>>

\* C5: wrong-key detection.  Decrypting the unchanged ciphertext (of any
\* plaintext, the empty one included) with another key ends with the
\* authentication error.
C5_WrongKeyDetected ==
    (decPc = "done" /\ attack = NoAttack /\ SecureData(dec.keyBuf) # Data(enc.keyBuf)
        /\ PlainHint /\ decSizeHint = <<>>)
    => decErr = AuthError

\* C6: size-field tamper detection.  After the size field of the header was
\* replaced by another value, DecryptStream with the right key never returns
\* nil, whatever the number of chunks.
C6_SizeTamperDetected ==
    (decPc = "done" /\ attack.kind = "size") => decErr # "nil"

\* C7: chunk order.  After two chunks were swapped, a copy of a chunk was
\* inserted or a non-final chunk was deleted, DecryptStream ends with the
\* authentication error at the first displaced chunk: it has opened exactly
\* the chunks before it.
C7_ChunkOrder ==
    (decPc = "done" /\ attack.kind \in {"swap", "insert", "delete"})
    => /\ decErr = AuthError
       /\ decChunkCounter = attack.at
       /\ decDst = PlainOfChunks(attack.at - 1)

C7_Witness ==
    /\ decPc = "done" /\ attack.kind = "insert" /\ attack.at = 2 /\ attack.arg = 1
    /\ decErr = AuthError /\ decDst = PlainOfChunks(1) /\ decDst # <<>>

\* The seals of the current EncryptStream call.
SealedNow == SelectSeq(sealed, LAMBDA e : e.run = run)

\* C8: nonce uniqueness inside one stream.  No two seals of one call use the
\* same nonce, whatever the starting counter; a counter that wrapped to 0
\* ends the call with the nonce-overflow error, and the chunk read in that
\* iteration was neither sealed nor written.
C8_NonceUnique ==
    /\ \A i, j \in 1..Len(sealed) :
          (i # j /\ sealed[i].run = sealed[j].run) => sealed[i].nonce # sealed[j].nonce
    /\ (encPc # "idle" /\ reads # <<>> /\ chunkCounter = 0)
          => (encPc = "done" /\ encErr = "nonce overflow")
    /\ (encPc = "done" /\ encErr = "nonce overflow")
          => /\ chunkCounter = 0
             /\ Len(SealedNow) = Len(reads) - 1
             /\ Len(dst) = 24 + SumTo(reads, Len(reads) - 1) + (Len(reads) - 1) * 20

C8_Witness ==
    /\ encPc = "done" /\ encErr = "nonce overflow"
    /\ Len(reads) = 2 /\ Len(SealedNow) = 1
    /\ enc.startChunkCounter = U32Mod - 2

\* C9: no nonce reuse across streams.  Seals of two calls whose base nonces
\* differ never use the same nonce.
C9_NoReuseAcrossRuns ==
    \A i, j \in 1..Len(sealed) :
        (sealed[i].run # sealed[j].run /\ sealed[i].base # sealed[j].base)
        => sealed[i].nonce # sealed[j].nonce

SizeInRange(size) == size = <<>> \/ (size[1] >= 1 /\ size[1] <= MaxChunkSize)
\* Nothing of an encryption (a decryption) has happened: no source byte
\* read, no sink byte written, no destination file created.
EncUntouched ==
    encPc = "idle" /\ run = 0 /\ srcPos = 0 /\ dst = <<>> /\ dstFile = "absent"
DecUntouched ==
    decPc = "idle" /\ decPos = 0 /\ decDst = <<>> /\ decDstFile = "absent"

\* C11: key length check.  A constructor called with a key whose length is
\* not 32 returns an error and no instance, and then nothing is ever read,
\* written or created; called with a 32-byte key and a chunk size in range
\* (or none) it returns an instance and no error.
C11_KeyLengthCheck ==
    /\ (encNew.called /\ encNew.optErr = "nil" /\ Len(encNew.key) # 32)
          => (enc = Nil /\ encNew.err = "invalid key length" /\ EncUntouched)
    /\ (decNew.called /\ decNew.optErr = "nil" /\ Len(decNew.key) # 32)
          => (dec = Nil /\ decNew.err = "invalid key length" /\ DecUntouched)
    /\ (encNew.called /\ encNew.optErr = "nil" /\ Len(encNew.key) = 32
            /\ SizeInRange(encNew.size))
          => (enc # Nil /\ encNew.err = "nil")
    /\ (decNew.called /\ decNew.optErr = "nil" /\ Len(decNew.key) = 32
            /\ SizeInRange(decNew.size))
          => (dec # Nil /\ decNew.err = "nil")

C11_Witness ==
    /\ encNew.called /\ Len(encNew.key) = 33 /\ encNew.size = <<1>>
    /\ enc = Nil /\ encNew.err = "invalid key length"
    /\ decNew.called /\ Len(decNew.key) = 32 /\ dec # Nil
    /\ encVia = "EncryptFile"

\* What C12 says of one constructor call and the instance it gave.
ChunkSizeBounds(new, inst) ==
    /\ (new.called /\ new.size # <<>>)
          => ((new.optErr # "nil") <=> (new.size[1] <= 0 \/ new.size[1] > MaxChunkSize))
    /\ (new.called /\ new.size # <<>> /\ new.optErr = "nil" /\ Len(new.key) = 32)
          => (inst # Nil /\ inst.chunkSize = new.size[1])
    /\ (new.called /\ new.size = <<>> /\ Len(new.key) = 32)
          => (inst # Nil /\ inst.chunkSize = DefaultChunkSize)

\* C12: chunk-size bounds.  With the environment variable not set,
\* WithChunkSize(s) fails exactly for s <= 0 and s > MaxChunkSize; an instance
\* built with an accepted s has chunk size s, one built without the option
\* has the default, and no read of EncryptStream asks for more.
C12_ChunkSizeBounds ==
    (env = EnvUnset)
    => /\ ChunkSizeBounds(encNew, enc)
       /\ ChunkSizeBounds(decNew, dec)
       /\ (enc # Nil) => \A i \in 1..Len(reads) : reads[i] <= enc.chunkSize

C12_Witness ==
    /\ env = EnvUnset
    /\ encNew.size = <<MaxChunkSize>> /\ enc # Nil /\ enc.chunkSize = MaxChunkSize
    /\ decNew.size = <<>> /\ dec # Nil /\ dec.chunkSize = DefaultChunkSize
    /\ encPc = "done" /\ encErr = "nil" /\ Len(reads) = 1

\* What C13 says of one constructor call and the instance it gave.
LimitOverride(new, inst) ==
    /\ (EnvOverrides(env) /\ new.called /\ new.size # <<>>)
          => /\ (new.size[1] >= 1 /\ new.size[1] <= env.limit)
                   => /\ new.optErr = "nil"
                      /\ (Len(new.key) = 32) => (inst # Nil /\ inst.chunkSize = new.size[1])
             /\ (new.size[1] > env.limit) => (new.optErr # "nil")
    /\ (env = EnvUnparseable /\ new.called /\ new.size # <<>>)
          => ((new.optErr # "nil") <=> (new.size[1] <= 0 \/ new.size[1] > MaxChunkSize))

\* C13: chunk-size limit override.  With FILEENCRYPT_CHUNKSIZE_LIMIT set to
\* a size L > 0, WithChunkSize accepts every size in [1, L] and rejects every
\* size above L, an accepted size builds an Encryptor (Decryptor) that uses
\* it, and the stream it encrypts decrypts; an unparseable value leaves the
\* limit MaxChunkSize in force.
C13_LimitOverride ==
    /\ LimitOverride(encNew, enc)
    /\ LimitOverride(decNew, dec)
    /\ (EnvOverrides(env) /\ enc # Nil /\ dec # Nil /\ decPc = "done"
           /\ IsSupported(enc.algorithm) /\ IsSupported(dec.algorithm))
          => (decErr = "nil" /\ decDst = plaintext)

\* The algorithm a constructor call asked for.
AlgorithmOf(new) ==
    IF new.opts.algorithm = <<>> THEN AlgorithmAESGCM ELSE new.opts.algorithm[1]

\* C14: unsupported algorithm.  The constructors accept every algorithm
\* value; with a value other than AES-256-GCM each EncryptStream, EncryptFile,
\* DecryptStream or DecryptFile call ends with the unsupported-algorithm
\* error having read nothing, written nothing and created no file; with
\* AES-256-GCM (default or explicit) no call ends with that error.
C14_UnsupportedAlgorithm ==
    /\ (encNew.called /\ encNew.optErr = "nil" /\ Len(encNew.key) = 32
            /\ SizeInRange(encNew.size))
          => (enc # Nil /\ enc.algorithm = AlgorithmOf(encNew))
    /\ (decNew.called /\ decNew.optErr = "nil" /\ Len(decNew.key) = 32
            /\ SizeInRange(decNew.size))
          => (dec # Nil /\ dec.algorithm = AlgorithmOf(decNew))
    /\ (enc # Nil /\ enc.algorithm # AlgorithmAESGCM)
          => /\ encPc # "loop"
             /\ srcPos = 0 /\ dst = <<>> /\ dstFile = "absent" /\ sealed = <<>>
             /\ (encPc = "done") => (encErr = "unsupported algorithm")
    /\ (dec # Nil /\ dec.algorithm # AlgorithmAESGCM)
          => /\ decPc # "loop"
             /\ decPos = 0 /\ decDst = <<>> /\ decDstFile = "absent"
             /\ (decPc = "done") => (decErr = "unsupported algorithm")
    /\ (enc # Nil /\ enc.algorithm = AlgorithmAESGCM) => (encErr # "unsupported algorithm")
    /\ (dec # Nil /\ dec.algorithm = AlgorithmAESGCM) => (decErr # "unsupported algorithm")

C14_Witness ==
    /\ encNew.opts.algorithm = <<AlgorithmAESGCM>> /\ encPc = "done" /\ encErr = "nil"
    /\ dec # Nil /\ dec.algorithm = AlgorithmMLKEMHybrid /\ decVia = "DecryptFile"
    /\ attack = NoAttack
    /\ decPc = "done" /\ decErr = "unsupported algorithm" /\ decDstFile = "absent"

\* The sink of EncryptStream holds the header and one complete frame per
\* non-empty read, each with its length prefix, and nothing else.
WholeFrames ==
    /\ Len(dst) = HeaderSize + SumTo(reads, Len(reads)) + Len(reads) * (4 + TagSize)
    /\ \A i \in 1..Len(reads) :
          Uint(SubSeq(dst, ChunkStart(i) + 1, ChunkStart(i) + 4)) = reads[i] + TagSize
    /\ srcPos = SumTo(reads, Len(reads))

\* C15: cancellation leaves no partial chunk.  An iteration that finds the
\* context done returns the cancellation error, reads nothing and writes
\* nothing; EncryptStream's sink then holds the header and complete frames
\* only, DecryptStream's sink the complete plaintexts of the chunks opened;
\* and no step of a running call takes back a byte already written.
C15_CancelNoPartialChunk ==
    /\ []((encPc = "done" /\ encErr = ErrContextCanceled) => (ctx # "nil" /\ WholeFrames))
    /\ []((decPc = "done" /\ decErr = ErrContextCanceled)
             => (ctx # "nil" /\ decDst = PlainOfChunks(decChunkCounter)))
    /\ [][(encPc = "loop" /\ ctx # "nil")
             => (encPc' = "done" /\ encErr' = ErrContextCanceled
                   /\ srcPos' = srcPos /\ zeroReads' = zeroReads /\ dst' = dst)]_vars
    /\ [][(decPc = "loop" /\ ctx # "nil")
             => (decPc' = "done" /\ decErr' = ErrContextCanceled
                   /\ decPos' = decPos /\ decDst' = decDst)]_vars
    /\ [][(encPc = "loop" => SubSeq(dst', 1, Len(dst)) = dst)
             /\ (decPc = "loop" => SubSeq(decDst', 1, Len(decDst)) = decDst)]_vars

C15_Witness ==
    /\ encPc = "done" /\ encErr = ErrContextCanceled
    /\ Len(plaintext) = 2 /\ reads = <<1>> /\ srcPos = 1
    /\ Len(dst) = HeaderSize + 1 + 4 + TagSize

\* C16: timeout error identity.  When EncryptFile returned an error and the
\* context it was given has exceeded its deadline, that error is
\* context.DeadlineExceeded.
C16_TimeoutErrorIdentity ==
    (encVia = "EncryptFile" /\ encPc = "done" /\ encErr # "nil"
        /\ ctx = "context.DeadlineExceeded")
    => encErr = "context.DeadlineExceeded"

\* A value passed to a progress callback lies in [0.0, 1.0].
InUnit(c) == c.den > 0 /\ c.num >= 0 /\ c.num <= c.den
\* A value passed to a progress callback is exactly 1.0.
IsOne(c) == c.den # 0 /\ c.num = c.den
Last(q) == q[Len(q)]

\* C17: progress values are fractions.  Every value a progress callback
\* receives lies in [0.0, 1.0], whatever the size hint or declared size and
\* the amount of data processed.
C17_ProgressFractions ==
    /\ \A i \in 1..Len(progressCalls) : InUnit(progressCalls[i])
    /\ \A i \in 1..Len(decProgressCalls) : InUnit(decProgressCalls[i])

\* C18 as stated: EncryptStream with a progress callback and without a size
\* hint never invokes the callback.
C18_NoProgressWithoutSize ==
    (enc.progress /\ sizeHint = <<>>) => progressCalls = <<>>

\* C18 amended: EncryptStream with a progress callback and without a size
\* hint does not invoke the callback in its chunk loop; it invokes it once,
\* with 1.0, when it returns nil, and not at all when it returns an error.
C18_OnlyCompletionWithoutSize ==
    (enc.progress /\ sizeHint = <<>>)
    => progressCalls = (IF encPc = "done" /\ encErr = "nil" THEN <<One>> ELSE <<>>)

C18_Witness ==
    /\ enc.progress /\ sizeHint = <<>> /\ encVia = "EncryptStream"
    /\ encPc = "done" /\ encErr = "nil" /\ reads = <<1, 1>>
    /\ Len(progressCalls) = 1 /\ IsOne(progressCalls[1])

\* C19: completion callback.  With a progress callback configured, a call
\* that returned nil has invoked it, and its last invocation is the one after
\* the loop, with exactly 1.0; a call that returned an error has not made
\* that invocation.
C19_CompletionCallback ==
    /\ (enc.progress /\ encPc = "done" /\ encErr = "nil")
          => /\ progressCalls # <<>>
             /\ Last(progressCalls).final /\ IsOne(Last(progressCalls))
    /\ (enc.progress /\ encPc = "done" /\ encErr # "nil")
          => \A i \in 1..Len(progressCalls) : ~progressCalls[i].final
    /\ (dec.progress /\ decPc = "done" /\ decErr = "nil")
          => /\ decProgressCalls # <<>>
             /\ Last(decProgressCalls).final /\ IsOne(Last(decProgressCalls))
    /\ (dec.progress /\ decPc = "done" /\ decErr # "nil")
          => \A i \in 1..Len(decProgressCalls) : ~decProgressCalls[i].final

C19_Witness ==
    /\ enc.progress /\ encPc = "done" /\ encErr = "nil" /\ Len(progressCalls) = 3
    /\ dec.progress /\ decPc = "done" /\ decErr = AuthError
    /\ Len(decProgressCalls) = 1 /\ IsOne(decProgressCalls[1])

\* What C20 says of one key buffer in one state: key is what it was made
\* from, n the number of Destroy calls made on its owner so far.
Lifecycle(buf, key, n) ==
    /\ buf.zeroed <=> (n >= 1)
    /\ ~buf.zeroed => (buf.buf = key /\ buf.unlocks = 0)
    /\ buf.zeroed => /\ Len(buf.buf) = Len(key)
                     /\ \A i \in 1..Len(buf.buf) : buf.buf[i] = 0
                     /\ buf.unlocks = 1
                     /\ ~buf.locked

\* C20: key-buffer lifecycle.  A key buffer is live (holding the key, never
\* unlocked) until the first Destroy, which zeroes every byte and runs the
\* unlock once; from then on it is destroyed, Data() is all zero with the
\* original length, and a further Destroy changes nothing.  This holds for
\* the buffer of an Encryptor under Encryptor.Destroy and for the buffer of
\* a Decryptor under Decryptor.Destroy.
C20_KeyBufferLifecycle ==
    /\ [](Lifecycle(enc.keyBuf, encNew.key, destroys.enc)
            /\ Data(enc.keyBuf) = (IF destroys.enc >= 1 THEN KeyZero ELSE encNew.key))
    /\ [](Lifecycle(dec.keyBuf, decNew.key, destroys.dec)
            /\ SecureData(dec.keyBuf) = (IF destroys.dec >= 1 THEN KeyZero ELSE decNew.key))
    /\ [][(enc.keyBuf.zeroed => enc'.keyBuf = enc.keyBuf)
             /\ (dec.keyBuf.zeroed => dec'.keyBuf = dec.keyBuf)]_vars

C20_Witness ==
    /\ destroys.enc = 3 /\ enc.keyBuf.zeroed /\ enc.keyBuf.unlocks = 1
    /\ encNew.key = KeyB /\ Data(enc.keyBuf) = KeyZero
    /\ destroys.dec = 2 /\ dec.keyBuf.zeroed /\ dec.keyBuf.unlocks = 1

\* C24: the size hint is for progress only.  Whatever size hint EncryptStream
\* was given (none, the real length, a smaller or a larger value, a negative
\* one), decrypting its unchanged output with the same key and no hint of
\* its own returns nil and the sink holds exactly the plaintext.
C24_HintOnlyForProgress ==
    (decPc = "done" /\ attack = NoAttack /\ SecureData(dec.keyBuf) = Data(enc.keyBuf)
        /\ decSizeHint = <<>>)
    => (decErr = "nil" /\ decDst = plaintext)

\* A chunk length outside 1..MaxChunkSize+16.
BadLength(len) == len = 0 \/ len > MaxChunkSize + TagSize
\* The chunk length DecryptStream is about to read.
NextLength == Uint(SubSeq(decSrc, decPos + 1, decPos + 4))

\* C26: chunk-length guard on decode.  An iteration of DecryptStream that
\* reads a chunk length of 0 or above MaxChunkSize + 16 returns the
\* invalid-chunk-size error having read the 4 length bytes and no byte of
\* the body, and writes nothing; that error is returned only after such a
\* length; every length EncryptStream writes is in 1..MaxChunkSize + 16 and
\* an unchanged stream never ends with that error.
C26_ChunkLengthGuard ==
    /\ [][(decPc = "loop" /\ ctx = "nil" /\ Len(decSrc) - decPos >= 4
                /\ BadLength(NextLength))
             => (decPc' = "done" /\ decErr' = "invalid chunk size"
                   /\ decPos' = decPos + 4 /\ decDst' = decDst
                   /\ decChunkCounter' = decChunkCounter)]_vars
    /\ []((decPc = "done" /\ decErr = "invalid chunk size")
             => (decPos >= HeaderSize + 4
                   /\ BadLength(Uint(SubSeq(decSrc, decPos - 3, decPos)))))
    /\ [](\A i \in 1..NumChunks :
             ~BadLength(Uint(SubSeq(dst, ChunkStart(i) + 1, ChunkStart(i) + 4))))
    /\ []((decPc = "done" /\ attack = NoAttack) => decErr # "invalid chunk size")

C26_Witness ==
    /\ attack.kind = "length" /\ attack.at = 2 /\ attack.arg = MaxChunkSize + TagSize + 1
    /\ decPc = "done" /\ decErr = "invalid chunk size"
    /\ decPos = ChunkStart(2) + 4 /\ Len(decSrc) > decPos
    /\ decDst = PlainOfChunks(1) /\ decDst # <<>>

\* C27: minimum chunk length on decode.  When the decryptor, holding the
\* right key, has processed a stream in which a chunk-length field was
\* replaced by a value in 0..16, it ended with the invalid-chunk-size error.
C27_MinimumChunkLength ==
    (decPc = "done" /\ attack.kind = "length" /\ attack.arg <= TagSize
        /\ SecureData(dec.keyBuf) = Data(enc.keyBuf))
    => decErr = "invalid chunk size"

HeaderReadErrors == {"read magic bytes", "read version byte", "read nonce", "read size"}
\* The bytes of the input DecryptStream has not read yet.
Available == Len(decSrc) - decPos

Verified ==
    IF decPc = "done" /\ decErr = AuthError THEN decChunkCounter - 1 ELSE decChunkCounter

\* C30: the sink only receives authenticated plaintext.  At every point of
\* a DecryptStream run on any input, the sink holds the plaintexts, in
\* stream order, of the chunks verified so far: with the key of the
\* encryptor these are the first chunks of the original plaintext, with
\* another key there are none.  A step appends only the plaintext of the
\* chunk it has just verified; the step that meets a chunk failing
\* authentication ends the call with the authentication error and leaves the
\* sink as it was, and nothing is taken back or added afterwards.
C30_SinkOnlyAuthenticated ==
    /\ [](IF SecureData(dec.keyBuf) = Data(enc.keyBuf)
          THEN Verified <= NumChunks /\ decDst = PlainOfChunks(Verified)
          ELSE Verified = 0 /\ decDst = <<>>)
    /\ [][(decDst' # decDst)
             => LET ciphertext == SubSeq(decSrc, decPos + 5, decPos')
                    opened == Open(decGcm, DecChunkNonce(decBaseNonce, decChunkCounter),
                                   ciphertext, decAad)
                IN /\ decPc = "loop" /\ opened.ok
                   /\ decDst' = decDst \o opened.plaintext]_vars
    /\ [][(decPc = "loop" /\ decErr' = AuthError)
             => (decPc' = "done" /\ decDst' = decDst)]_vars
    /\ [][(decPc = "done") => (decDst' = decDst)]_vars

C30_Witness ==
    /\ attack.kind = "tamper" /\ attack.at = 2 /\ attack.arg = ChunkStart(2) + 5
    /\ SecureData(dec.keyBuf) = Data(enc.keyBuf)
    /\ decPc = "done" /\ decErr = AuthError /\ Verified = 1
    /\ decDst = <<plaintext[1]>>

\* The arguments DeriveKeyPBKDF2 must reject, and those DeriveKeyArgon2 must.
Pbkdf2Rejects(a) ==
    \/ Len(a.password) = 0 \/ Len(a.salt) < 16 \/ a.iterations < 210000
    \/ a.keyLen < 1 \/ a.keyLen > 128
Argon2Rejects(a) ==
    \/ Len(a.password) = 0 \/ Len(a.salt) < 16 \/ a.time < 1 \/ a.memory < 19456
    \/ a.threads < 1 \/ a.keyLen < 1 \/ a.keyLen > 128

\* C23: key-derivation parameter validation.  DeriveKeyPBKDF2 returns an
\* error exactly when the password is empty, the salt is shorter than 16
\* bytes, iterations < 210000 or keyLen is outside [1,128]; DeriveKeyArgon2
\* exactly when the password is empty, the salt is shorter than 16 bytes,
\* time < 1, memory < 19456, threads < 1 or keyLen is outside [1,128].  A
\* rejected call returns no key and has not run the derivation; an accepted
\* call returns a key of exactly keyLen bytes.
C23_KdfValidation ==
    kdf.called
    => LET rejects == IF kdf.fn = "PBKDF2" THEN Pbkdf2Rejects(kdf.args)
                      ELSE Argon2Rejects(kdf.args)
       IN /\ (kdf.res.err # "nil") <=> rejects
          /\ rejects => (kdf.res.noKey /\ ~kdf.res.ran)
          /\ ~rejects => (~kdf.res.noKey /\ kdf.res.ran
                            /\ Len(kdf.res.key) = kdf.args.keyLen)

C23_Witness ==
    /\ kdf.called /\ kdf.fn = "Argon2"
    /\ kdf.args.memory = 19455 /\ kdf.args.keyLen = 128 /\ kdf.args.threads = 1
    /\ kdf.args.time = 1 /\ Len(kdf.args.salt) = 16 /\ Len(kdf.args.password) = 1
    /\ kdf.res.err # "nil" /\ kdf.res.noKey

\* Goroutine t is between s.mu.Lock() and s.mu.Unlock().
InCritical(t) == sbCalls[t].pc \in {"locked", "zero", "mark", "release", "unlock"}
AllReturned == \A t \in Callers : sbCalls[t].pc = "returned"
AllZero(b) == \A i \in 1..Len(b) : b[i] = 0

\* C21: concurrent Destroy.  Under every interleaving of the steps of
\* goroutines that call Destroy or Data on one SecureBuffer, secure.Zero
\* runs at most once and the unlock closure at most once, no two goroutines
\* are inside the methods at the same time, and when all calls have returned
\* and one of them was Destroy the buffer is marked destroyed, all-zero, of
\* its original length, zeroed exactly once and unlocked exactly once; Data
\* returned the key or the zeroed buffer.
C21_ConcurrentDestroy ==
    /\ zeroCalls <= 1 /\ sb.unlocks <= 1
    /\ \A t, u \in Callers : (t # u) => ~(InCritical(t) /\ InCritical(u))
    /\ sb.zeroed => (zeroCalls = 1 /\ AllZero(sb.buf))
    /\ (AllReturned /\ \E t \in Callers : sbCalls[t].op = "Destroy")
          => /\ sb.zeroed /\ ~sb.locked
             /\ zeroCalls = 1 /\ sb.unlocks = 1
             /\ Len(sb.buf) = KeySize /\ AllZero(sb.buf)
    /\ (\A t \in Callers : sbCalls[t].op = "Data")
          => (~sb.zeroed /\ zeroCalls = 0 /\ sb.unlocks = 0 /\ sb.buf \in Keys)
    /\ \A t \in Callers :
          (sbCalls[t].op = "Data" /\ sbCalls[t].pc = "returned")
          => sbCalls[t].seen \in Keys \cup {KeyZero}

C21_Witness ==
    /\ AllReturned
    /\ sbCalls[1].op = "Destroy" /\ sbCalls[2].op = "Destroy" /\ sbCalls[3].op = "Data"
    /\ sbCalls[3].seen = KeyZero
    /\ sb.zeroed /\ zeroCalls = 1 /\ sb.unlocks = 1

\* C22: the key buffer is a private copy.  Whatever the caller writes into
\* the key slice it passed to NewEncryptor or NewDecryptor, the instance's
\* buffer holds the key it was built from until its own Destroy, the cipher
\* of a call is built from that key, and streams encrypted and decrypted
\* after the overwrite round-trip; no Destroy changes a caller's slice, and no
\* write of the caller changes a buffer.
C22_PrivateKeyCopy ==
    /\ [](destroys.enc = 0 => (Data(enc.keyBuf) = encNew.key /\ gcm \in {<<>>, encNew.key}))
    /\ [](destroys.dec = 0
            => (SecureData(dec.keyBuf) = decNew.key /\ decGcm \in {<<>>, decNew.key}))
    /\ []((destroys.enc = 0 /\ destroys.dec = 0 /\ decPc = "done")
            => (decErr = "nil" /\ decDst = plaintext))
    /\ [][(destroys' # destroys) => (callerKey' = callerKey)]_vars
    /\ [][(callerKey' # callerKey) => (enc' = enc /\ dec' = dec)]_vars

C22_Witness ==
    /\ callerKey.enc = KeyZero /\ callerKey.dec = KeyB /\ encNew.key = KeyA
    /\ destroys.enc = 0 /\ destroys.dec = 1
    /\ gcm = KeyA /\ decGcm = KeyA
    /\ decPc = "done" /\ decErr = "nil" /\ decDst = plaintext
\* What worker w writes when its EncryptStream call runs alone.
AloneOutput(w) ==
    RunAlone(Data(EncOf(workers[w].inst).keyBuf), workers[w].rnd, workers[w].hint,
             workers[w].pt, EncOf(workers[w].inst).chunkSize)

StartsWith(long, short) ==
    Len(short) <= Len(long) /\ SubSeq(long, 1, Len(short)) = short

C31_BoundedCancellation ==
    /\ [](ctx # "nil" =>
             /\ Len(reads) <= cancelAt.enc + 1
             /\ decChunkCounter <= cancelAt.dec + 1)
    /\ []((ctx # "nil" /\ encPc = "done" /\ Len(reads) = cancelAt.enc + 1)
             => encErr \in {ErrContextCanceled, "nil"})
    /\ [][(encPc = "loop" /\ ctx # "nil")
             => (encPc' = "done" /\ encErr' = ErrContextCanceled
                   /\ srcPos' = srcPos /\ zeroReads' = zeroReads /\ dst' = dst)]_vars
    /\ [][(decPc = "loop" /\ ctx # "nil")
             => (decPc' = "done" /\ decErr' = ErrContextCanceled
                   /\ decPos' = decPos /\ decDst' = decDst)]_vars
    /\ [][(encPc = "iter" /\ encPc' # "iter")
             => (encPc' \in {"loop", "done"} /\ Len(reads') <= Len(reads) + 1)]_vars
    /\ [][(decPc = "iter" /\ decPc' # "iter")
             => (decPc' \in {"loop", "done"}
                   /\ decChunkCounter' <= decChunkCounter + 1)]_vars

\* The context was cancelled while the first iteration was past its poll:
\* that chunk was written, and the next poll ended the call.
C31_Witness ==
    /\ ctx # "nil" /\ encPc = "done" /\ encErr = ErrContextCanceled
    /\ cancelAt.enc = 0 /\ Len(reads) = 1 /\ Len(plaintext) = 2
    /\ Len(dst) = HeaderSize + 1 + 4 + TagSize

\* C32: stream capacity.  With the chunk counter starting at 0, EncryptStream
\* returns the nonce-overflow error only for a stream that needs more chunks
\* than a uint32 has values: a stream of at most that many chunks is
\* encrypted without a nonce-overflow error.
C32_StreamCapacity ==
    (enc.startChunkCounter = 0 /\ encPc = "done" /\ encErr = "nonce overflow")
    => Len(reads) > U32Mod

\* The errors of EncryptStream's sink and source, and of DecryptStream's.
EncWriteErrors ==
    {"write magic bytes", "write version byte", "write nonce", "write file size",
     "write chunk size", "write encrypted chunk"}
DecReadErrors == HeaderReadErrors \cup {"read chunk size", "read encrypted chunk"}
\* A step in which a call ends with one of the errors of E.
EncEndsWith(E) == encPc # "done" /\ encPc' = "done" /\ encErr' \in E
DecEndsWith(E) == decPc # "done" /\ decPc' = "done" /\ decErr' \in E
\* A call that has returned reads and writes no more, and its result stays.
NoRetry ==
    /\ encPc = "done" => (encPc' = "done" /\ encErr' = encErr /\ srcPos' = srcPos /\ dst' = dst)
    /\ decPc = "done" => (decPc' = "done" /\ decErr' = decErr /\ decPos' = decPos
                            /\ decDst' = decDst)
\* A failed write left only a part of what was to be written, and a call
\* that returns nil wrote everything.
WriteFailuresReported ==
    /\ (encPc = "done" /\ encErr = "nil") => (WholeFrames /\ srcPos = Len(plaintext))
    /\ (encPc = "done" /\ encErr \in {"write chunk size", "write encrypted chunk"})
          => ~WholeFrames
    /\ (encPc = "done" /\ encErr \in EncWriteErrors \ {"write chunk size", "write encrypted chunk"})
          => (Len(dst) < HeaderSize /\ encErr = HeaderWriteError(Len(dst)) /\ srcPos = 0)
    /\ (decPc = "done" /\ decErr = "write plaintext chunk")
          => (Len(decDst) < decWritten + (decPos - HeaderSize
                                           - decChunkCounter * (4 + TagSize)))
\* The step that ends with a write error or with a read error of
\* DecryptStream.
StopAtWrite ==
    /\ EncEndsWith(EncWriteErrors) =>
          Len(dst') < Len(dst) + (IF encPc = "idle" THEN HeaderSize
                                  ELSE 4 + (srcPos' - srcPos) + TagSize)
    /\ DecEndsWith(DecReadErrors) => decDst' = decDst
    /\ DecEndsWith({"write plaintext chunk"}) => decPos' > decPos

\* C33 as stated: I/O errors stop the operation at once.  A source read that
\* returns an error other than end-of-stream, or a sink write that fails,
\* ends the call with that error under the name of the failing step, with no
\* retry, no further read of the source and no further write to the sink
\* after the failing call, also when the failing read returned bytes.
C33_IoErrorsStopAtOnce ==
    /\ [](WriteFailuresReported)
    /\ [][NoRetry /\ StopAtWrite]_vars
    /\ [][EncEndsWith({"read source stream"}) => dst' = dst]_vars

\* C33 amended: as above, except that the bytes a failing read returned with
\* its error are sealed and written, as one whole chunk, before the call
\* returns the read error; a failing read that returned no bytes writes
\* nothing.
C33_IoErrorsStop ==
    /\ [](WriteFailuresReported)
    /\ [][NoRetry /\ StopAtWrite]_vars
    /\ [][EncEndsWith({"read source stream"}) =>
             /\ WholeFrames'
             /\ Len(reads') - Len(reads) = (IF srcPos' > srcPos THEN 1 ELSE 0)
             /\ Len(dst') - Len(dst)
                   = (IF srcPos' > srcPos THEN 4 + (srcPos' - srcPos) + TagSize ELSE 0)]_vars

\* A source that failed when it had handed over its first byte, with the
\* chunk of that byte in the sink.
C33_Witness ==
    /\ encPc = "done" /\ faults = {"encSrc"} /\ encErr = "read source stream"
    /\ Len(plaintext) = 2 /\ srcPos = 1 /\ reads = <<1>> /\ zeroReads = 0
    /\ Len(dst) = HeaderSize + 4 + 1 + TagSize

\* C34: flush failures are reported.  EncryptFile and DecryptFile return a
\* non-nil error whenever the final flush of the buffered destination writer
\* fails, so a nil result implies that every output byte was handed to the
\* destination file.
C34_FlushFailuresReported ==
    /\ fileRet.enc.returned =>
          /\ fileRet.enc.flushErr # "nil" => fileRet.enc.err # "nil"
          /\ fileRet.enc.err = "nil" => fileRet.enc.onDisk = Len(dst)
    /\ fileRet.dec.returned =>
          /\ fileRet.dec.flushErr # "nil" => fileRet.dec.err # "nil"
          /\ fileRet.dec.err = "nil" => fileRet.dec.onDisk = Len(decDst)

\* C35: order of header I/O and the first poll.  With a context already done
\* when the call is made (valid key, supported algorithm), EncryptStream
\* still writes the whole header, reads nothing from the source and returns
\* the cancellation error; DecryptStream first consumes the header, so that
\* a bad magic or version is reported as a format error and not as a
\* cancellation, and only then returns the cancellation error, having read
\* no chunk.
C35_HeaderBeforeFirstPoll ==
    LET magic == SubSeq(decSrc, 1, Len(MagicBytes))
        version == SubSeq(decSrc, Len(MagicBytes) + 1, Len(MagicBytes) + 1)
    IN /\ (cancelAt.encPc = "idle" /\ encPc # "idle") =>
             /\ dst = EncHeader(baseNonce, EncSizeBytes(sizeHint))
             /\ Len(dst) = HeaderSize
             /\ srcPos = 0 /\ reads = <<>> /\ zeroReads = 0
             /\ encPc = "done" => encErr = ErrContextCanceled
       /\ (cancelAt.decPc = "idle" /\ decPc = "done") =>
             /\ decDst = <<>> /\ decChunkCounter = 0
             /\ decErr = ErrContextCanceled
                   <=> (Len(decSrc) >= HeaderSize /\ magic = MagicBytes
                          /\ version = <<Version>>)
             /\ decErr = ErrContextCanceled => decPos = HeaderSize
             /\ (Len(decSrc) >= Len(MagicBytes) /\ magic # MagicBytes)
                   => decErr = "invalid file format"
             /\ (Len(decSrc) > Len(MagicBytes) /\ magic = MagicBytes
                   /\ version # <<Version>>) => decErr = "unsupported file version"

\* DecryptStream was called with a context already done on a stream whose
\* version byte was changed, and returned the format error.
C35_Witness ==
    /\ cancelAt.decPc = "idle" /\ ctx # "nil"
    /\ attack.kind = "header" /\ attack.arg = 1
    /\ decPc = "done" /\ decErr = "unsupported file version"

\* C36: Destroy does not disable an instance.  After Destroy the key buffer
\* still holds 32 bytes, all zero; an EncryptStream or DecryptStream call
\* made after it passes the key-length check and uses the all-zero key, and
\* EncryptStream runs to completion; the ciphertext it produces decrypts
\* under the key of 32 zero bytes and not under the original key.
C36_DestroyDoesNotDisable ==
    /\ [](destroys.enc >= 1 =>
             (Len(Data(enc.keyBuf)) = KeySize /\ Data(enc.keyBuf) = KeyZero))
    /\ [](destroys.dec >= 1 =>
             (Len(SecureData(dec.keyBuf)) = KeySize /\ SecureData(dec.keyBuf) = KeyZero))
    /\ [][(encPc = "idle" /\ encPc' # "idle" /\ destroys.enc >= 1)
             => (encPc' = "loop" /\ gcm' = KeyZero)]_vars
    /\ [][(decPc = "idle" /\ decPc' # "idle" /\ destroys.dec >= 1)
             => (decErr' # "invalid key length" /\ (decPc' = "loop" => decGcm' = KeyZero))]_vars
    /\ [](encPc = "done" => encErr = "nil")
    /\ []((decPc = "done" /\ attack = NoAttack /\ gcm = KeyZero)
             => /\ decErr = "nil" <=> decGcm = KeyZero
                /\ decErr = "nil" => decDst = plaintext
                /\ decGcm = encNew.key => decErr = AuthError)

\* An Encryptor destroyed before its call encrypted under the zero key, and
\* a Decryptor holding the original key rejected the result.
C36_Witness ==
    /\ destroys.enc >= 1 /\ encPc = "done" /\ encErr = "nil" /\ gcm = KeyZero
    /\ Len(reads) = 2
    /\ destroys.dec = 0 /\ decGcm = encNew.key
    /\ decPc = "done" /\ decErr = AuthError

\* The frames in the sink of EncryptStream are those of the chunks read so
\* far, each sealed under the key k.
SealedUnder(k) ==
    \A i \in 1..Len(reads) :
       ChunkFrameAt(i) = EncChunkFrame(Seal(k,
                            EncChunkNonce(baseNonce, enc.startChunkCounter + i - 1),
                            SubSeq(plaintext, SumTo(reads, i - 1) + 1, SumTo(reads, i)), aad))

\* C37: one key per stream.  The cipher is built once per call, before the
\* header is written or read; a Destroy that takes effect after that does
\* not change the key of the remaining chunks: every chunk of one stream is
\* sealed under the key the buffer held when the call began, and a stream
\* whose encryption overlapped a Destroy decrypts completely under that key.
C37_OneKeyPerStream ==
    /\ [][(encPc = "loop" => gcm' = gcm) /\ (decPc = "loop" => decGcm' = decGcm)]_vars
    /\ [][(encPc = "idle" /\ encPc' = "loop")
             => (gcm' = Data(enc.keyBuf) /\ Len(dst') = HeaderSize)]_vars
    /\ [][(decPc = "idle" /\ decPc' = "loop")
             => (decGcm' = SecureData(dec.keyBuf) /\ decPos' = HeaderSize)]_vars
    /\ [](encPc \in {"loop", "done"} => SealedUnder(gcm))
    /\ []((decPc = "done" /\ attack = NoAttack /\ decGcm = gcm)
             => (decErr = "nil" /\ decDst = plaintext))

\* Destroy took effect after the cipher was built (the buffer is zero, the
\* cipher holds the original key); the stream was written whole and a
\* Decryptor with the original key decrypted all of it.
C37_Witness ==
    /\ destroys.enc >= 1 /\ Data(enc.keyBuf) = KeyZero
    /\ gcm = encNew.key /\ encPc = "done" /\ encErr = "nil" /\ Len(reads) = 2
    /\ decGcm = encNew.key /\ decPc = "done" /\ decErr = "nil" /\ decDst = plaintext

\* A step of the chunk loop of EncryptStream, of DecryptStream.
EncLoopStep == encPc = "loop" /\ <<encPc, srcPos, zeroReads>>' # <<encPc, srcPos, zeroReads>>
DecLoopStep == decPc = "loop" /\ <<decPc, decPos>>' # <<decPc, decPos>>

\* C38: termination.  DecryptStream ends on every input, with success or
\* with an error: an iteration ends the call or moves forward in the input.
\* EncryptStream ends with the iteration in which the context is found
\* cancelled, the source returns end-of-stream or an error, the sink fails
\* or the counter wraps; an iteration that does not end the call consumed
\* plaintext and wrote a whole frame, or was a read of zero bytes without an
\* error, which changes nothing but the number of such reads.  With at most
\* MaxZeroReads such reads every call that entered its loop returns.
C38_Termination ==
    /\ []<>(decPc # "loop")
    /\ []<>(encPc # "loop")
    /\ [](decPos <= Len(decSrc) /\ srcPos <= Len(plaintext))
    /\ [][DecLoopStep => (decPc' = "done" \/ decPos' > decPos)]_vars
    /\ [][EncLoopStep =>
            IF ctx # "nil"
            THEN encPc' = "done" /\ encErr' = ErrContextCanceled
            ELSE \/ /\ encPc' = "done"
                    /\ encErr' \in {"nil", "read source stream", "nonce overflow",
                                    "write chunk size", "write encrypted chunk"}
                 \/ /\ encPc' = "loop"
                    /\ srcPos' > srcPos
                    /\ Len(dst') = Len(dst) + 4 + (srcPos' - srcPos) + TagSize
                    /\ chunkCounter' = chunkCounter + 1
                    /\ zeroReads' = zeroReads
                 \/ /\ encPc' = "loop"
                    /\ zeroReads' = zeroReads + 1
                    /\ UNCHANGED <<srcPos, dst, chunkCounter, reads, written>>]_vars

\* The source returned zero bytes without an error as often as it may and
\* EncryptStream was still in its loop until the source ended; a cut
\* ciphertext made DecryptStream return an error.
C38_Witness ==
    /\ zeroReads = MaxZeroReads /\ encPc = "done" /\ encErr = "nil" /\ Len(reads) = 2
    /\ attack.kind = "truncate" /\ decPc = "done" /\ decErr # "nil"

====
